---- MODULE Spec2Model ----
(***************************************************************************)
(* A model of the log parser of streamlite-log-viewer (src/src/log_parser.py):*)
(* the timestamp, level, category and transaction-id extraction of one     *)
(* line (LogParser.parse_line), the per-file loop (LogParser.parse_file),  *)
(* the thread-pool dispatcher (LogParser.parse_files_parallel), and of the *)
(* window filter and pattern analysis of src/src/data_analyzer.py.         *)
(* Text is a TLA+ string; Python's re and datetime.strptime are modelled by *)
(* a small backtracking matcher over the patterns the source declares.     *)
(***************************************************************************)
EXTENDS Integers, Sequences, FiniteSets, TLC

VARIABLES
    clock,      \* the calendar year datetime.now() reports
    first,      \* the first parse_line call of the behaviour (None before it)
    last,       \* the latest parse_line call
    between,    \* a call with other inputs than the first was made after it
    ts_call,    \* the latest detect_timestamp call
    cls_call,   \* the latest classify_error call
    fs,         \* the file system: path -> the lines of the file
    run_a,      \* the previous parse_file run
    run_b,      \* the latest parse_file run
    io_call,    \* the latest parse_file call on a file that may fail to open or read
    pool,       \* the parse_files_parallel call: its executor, futures and result
    df,         \* the record set of the analysis pipeline (the DataFrame)
    out,        \* the latest result of an analysis step
    app         \* the run_analysis call: its position, its locals and its outcome

\* the state of the later stages: file failures, the dispatcher, the analyzer
later_vars == <<io_call, pool, df, out, app>>

vars == <<clock, first, last, between, ts_call, cls_call, fs, run_a, run_b, io_call, pool, df, out, app>>

(***************************************************************************)
(* Text: characters, classes, str.strip, str.upper, str.replace, str.rstrip *)
(***************************************************************************)
Ch(s, i) == SubSeq(s, i, i)

UpperLetters == "ABCDEFGHIJKLMNOPQRSTUVWXYZ"
LowerLetters == "abcdefghijklmnopqrstuvwxyz"
DigitChars == "0123456789"

CharsOf(s) == {Ch(s, i) : i \in 1..Len(s)}

UpperSet == CharsOf(UpperLetters)
LowerSet == CharsOf(LowerLetters)
DigitSet == CharsOf(DigitChars)
SpaceSet == {" ", "\t", "\n", "\r"}

IndexIn(s, c) == CHOOSE i \in 1..Len(s) : Ch(s, i) = c

LowerCh(c) == IF c \in UpperSet THEN Ch(LowerLetters, IndexIn(UpperLetters, c)) ELSE c
UpperCh(c) == IF c \in LowerSet THEN Ch(UpperLetters, IndexIn(LowerLetters, c)) ELSE c

RECURSIVE MapText(_, _)
\* which = "lower": str.lower; "upper": str.upper; "T": str.replace('T', ' ')
MapText(s, which) ==
    IF s = "" THEN ""
    ELSE LET c == Head(s)
             d == CASE which = "lower" -> LowerCh(c)
                    [] which = "upper" -> UpperCh(c)
                    [] OTHER -> IF c = "T" THEN " " ELSE c
         IN  d \o MapText(Tail(s), which)

\* str.strip(): leading and trailing whitespace removed
RECURSIVE lstrip(_)
lstrip(s) == IF s # "" /\ Head(s) \in SpaceSet THEN lstrip(Tail(s)) ELSE s

RECURSIVE rstrip(_, _)
rstrip(s, chars) ==
    IF s # "" /\ Ch(s, Len(s)) \in chars THEN rstrip(SubSeq(s, 1, Len(s) - 1), chars) ELSE s

strip(s) == rstrip(lstrip(s), SpaceSet)

\* s[:n] and s[n:] of Python (n >= 0, 0-based)
Prefix(s, n) == IF n >= Len(s) THEN s ELSE SubSeq(s, 1, n)
Suffix(s, n) == IF n >= Len(s) THEN "" ELSE SubSeq(s, n + 1, Len(s))

\* int(text) of a run of decimal digits
RECURSIVE ToInt(_)
ToInt(s) == IF s = "" THEN 0
            ELSE 10 * ToInt(SubSeq(s, 1, Len(s) - 1)) + (IndexIn(DigitChars, Ch(s, Len(s))) - 1)

\* str(n) of a natural number
RECURSIVE ToStr(_)
ToStr(n) == IF n < 10 THEN Ch(DigitChars, n + 1)
            ELSE ToStr(n \div 10) \o Ch(DigitChars, (n % 10) + 1)

(***************************************************************************)
(* Regular expressions.  A pattern is a sequence of elements; the matcher  *)
(* backtracks in the order of Python's re: a repetition is greedy, an      *)
(* optional group is tried first, alternatives are tried left to right.    *)
(***************************************************************************)
Lit(s) == [k |-> "lit", s |-> s]
Rep(c, lo, hi) == [k |-> "cls", c |-> c, min |-> lo, max |-> hi]
Plus(c) == [k |-> "cls", c |-> c, min |-> 1, max |-> -1]
Star(c) == [k |-> "cls", c |-> c, min |-> 0, max |-> -1]
One(c) == [k |-> "cls", c |-> c, min |-> 1, max |-> 1]
Wb == [k |-> "wb"]
Grp(n, p) == [k |-> "grp", n |-> n, p |-> p]
GrpEnd(n, from) == [k |-> "end", n |-> n, from |-> from]
Opt(p) == [k |-> "opt", p |-> p]
Alt(ps) == [k |-> "alt", ps |-> ps]

\* \s+ between two words
Words2(a, b) == <<Lit(a), Plus("space"), Lit(b)>>
\* a.*b
Gap2(a, b) == <<Lit(a), Star("dot"), Lit(b)>>

WordSet == LowerSet \cup UpperSet \cup DigitSet \cup {"_"}

InClass(c, cls) ==
    CASE cls = "digit" -> c \in DigitSet                          \* \d
      [] cls = "alpha" -> c \in LowerSet \cup UpperSet            \* [A-Za-z]
      [] cls = "space" -> c \in SpaceSet                          \* \s
      [] cls = "dot"   -> c # "\n"                                \* .
      [] cls = "sign"  -> c \in {"+", "-"}                        \* [+-]
      [] cls = "tsep"  -> c \in {"T", "t", " "}                   \* [T ] under IGNORECASE
      [] cls = "usep"  -> c \in SpaceSet \cup {"_"}               \* [_\s]
      [] cls = "csep"  -> c \in SpaceSet \cup {":"}               \* [:\s]
      [] cls = "idch"  -> c \in WordSet \cup {"-"}                \* [a-zA-Z0-9\-_]
      [] cls = "d01"   -> c \in {"0", "1"}
      [] cls = "d02"   -> c \in {"0", "1", "2"}
      [] cls = "d03"   -> c \in {"0", "1", "2", "3"}
      [] cls = "d05"   -> c \in {"0", "1", "2", "3", "4", "5"}
      [] cls = "d12"   -> c \in {"1", "2"}
      [] cls = "d19"   -> c \in DigitSet \ {"0"}
      [] OTHER -> FALSE

\* the number of consecutive characters of class cls from index i, at most lim
RECURSIVE Run(_, _, _, _)
Run(cls, s, i, lim) ==
    IF lim = 0 \/ i > Len(s) \/ ~InClass(Ch(s, i), cls) THEN 0
    ELSE 1 + Run(cls, s, i + 1, lim - 1)

IsWordAt(s, i) == i >= 1 /\ i <= Len(s) /\ Ch(s, i) \in WordSet

NoMatch == [ok |-> FALSE]

RECURSIVE MatchFrom(_, _, _, _)
RECURSIVE TryCounts(_, _, _, _, _, _)
RECURSIVE TryAlts(_, _, _, _, _)

\* pat: the elements still to match; i: index of the next character of s;
\* caps: the groups captured so far (name -> span)
MatchFrom(pat, s, i, caps) ==
    IF Len(pat) = 0 THEN [ok |-> TRUE, end |-> i, caps |-> caps]
    ELSE LET e == Head(pat)
             rest == Tail(pat)
         IN  CASE e.k = "lit" ->
                    IF i + Len(e.s) - 1 <= Len(s) /\ SubSeq(s, i, i + Len(e.s) - 1) = e.s
                    THEN MatchFrom(rest, s, i + Len(e.s), caps)
                    ELSE NoMatch
               [] e.k = "cls" ->
                    TryCounts(e, rest, s, i, caps,
                              Run(e.c, s, i, IF e.max < 0 THEN Len(s) ELSE e.max))
               [] e.k = "wb" ->
                    IF IsWordAt(s, i - 1) # IsWordAt(s, i)
                    THEN MatchFrom(rest, s, i, caps)
                    ELSE NoMatch
               [] e.k = "grp" -> MatchFrom(e.p \o <<GrpEnd(e.n, i)>> \o rest, s, i, caps)
               [] e.k = "end" ->
                    MatchFrom(rest, s, i, (e.n :> [from |-> e.from, to |-> i - 1]) @@ caps)
               [] e.k = "opt" ->
                    LET r == MatchFrom(e.p \o rest, s, i, caps)
                    IN  IF r.ok THEN r ELSE MatchFrom(rest, s, i, caps)
               [] e.k = "alt" -> TryAlts(e.ps, rest, s, i, caps)

TryCounts(e, rest, s, i, caps, n) ==
    IF n < e.min THEN NoMatch
    ELSE LET r == MatchFrom(rest, s, i + n, caps)
         IN  IF r.ok THEN r ELSE TryCounts(e, rest, s, i, caps, n - 1)

TryAlts(ps, rest, s, i, caps) ==
    IF Len(ps) = 0 THEN NoMatch
    ELSE LET r == MatchFrom(Head(ps) \o rest, s, i, caps)
         IN  IF r.ok THEN r ELSE TryAlts(Tail(ps), rest, s, i, caps)

NoCaps == << >>

\* a compiled pattern: ic = re.IGNORECASE (literals are written in lower case)
Re(p) == [p |-> p, ic |-> TRUE]
ReCS(p) == [p |-> p, ic |-> FALSE]

RECURSIVE SearchFrom(_, _, _)
\* r: the result of matching at index i
SearchNext(p, s, i, r) ==
    IF r.ok THEN [ok |-> TRUE, start |-> i, end |-> r.end, caps |-> r.caps]
    ELSE SearchFrom(p, s, i + 1)

SearchFrom(p, s, i) ==
    IF i > Len(s) + 1 THEN NoMatch
    ELSE SearchNext(p, s, i, MatchFrom(p, s, i, NoCaps))

\* pattern.search(text): the leftmost match.  start is the index of the first
\* matched character, end the index after the last one (so text[match.end():]
\* is Suffix(text, end - 1)).
search(re, s) == SearchFrom(re.p, IF re.ic THEN MapText(s, "lower") ELSE s, 1)

\* pattern.match(text): a match at the start of the text
match(re, s) == MatchFrom(re.p, IF re.ic THEN MapText(s, "lower") ELSE s, 1, NoCaps)

\* match.group(n) as text of the original string
group(s, m, n) == SubSeq(s, m.caps[n].from, m.caps[n].to)

\* TLC evaluates a constant definition once.  Tabulate(f) is f with every value
\* computed, so that a table of results is computed once and then only read;
\* Lookup reads it, and computes the result for an argument left out of it.
Tabulate(f) == f @@ << >>
Lookup(table, arg, computed) == IF arg \in DOMAIN table THEN table[arg] ELSE computed

(***************************************************************************)
(* Optional values: Python's None and a present value                      *)
(***************************************************************************)
None == << >>
Some(v) == <<v>>
IsNone(o) == Len(o) = 0
Val(o) == o[1]

(***************************************************************************)
(* datetime.strptime(text, format), for the directives the parser uses.    *)
(* The format is turned into a pattern (whitespace matches \s+, a literal  *)
(* matches itself, a directive its group); the pattern must match the      *)
(* whole text and the fields must name a date that exists; anything else   *)
(* is Python's ValueError.                                                 *)
(***************************************************************************)
MonthAbbr == <<"jan", "feb", "mar", "apr", "may", "jun",
               "jul", "aug", "sep", "oct", "nov", "dec">>

Bad == [k |-> "bad"]

Directive(c) ==
    CASE c = "Y" -> Grp("Y", <<Rep("digit", 4, 4)>>)
      [] c = "m" -> Grp("m", <<Alt(<< <<Lit("1"), One("d02")>>,
                                      <<Lit("0"), One("d19")>>,
                                      <<One("d19")>> >>)>>)
      [] c = "d" -> Grp("d", <<Alt(<< <<Lit("3"), One("d01")>>,
                                      <<One("d12"), One("digit")>>,
                                      <<Lit("0"), One("d19")>>,
                                      <<One("d19")>>,
                                      <<Lit(" "), One("d19")>> >>)>>)
      [] c = "H" -> Grp("H", <<Alt(<< <<Lit("2"), One("d03")>>,
                                      <<One("d01"), One("digit")>>,
                                      <<One("digit")>> >>)>>)
      [] c = "M" -> Grp("M", <<Alt(<< <<One("d05"), One("digit")>>,
                                      <<One("digit")>> >>)>>)
      [] c = "S" -> Grp("S", <<Alt(<< <<Lit("6"), One("d01")>>,
                                      <<One("d05"), One("digit")>>,
                                      <<One("digit")>> >>)>>)
      [] c = "f" -> Grp("f", <<Rep("digit", 1, 6)>>)
      [] c = "b" -> Grp("b", <<Alt([i \in 1..12 |-> <<Lit(MonthAbbr[i])>>])>>)
      [] OTHER -> Bad

RECURSIVE FormatPattern(_)
FormatPattern(fmt) ==
    IF fmt = "" THEN << >>
    ELSE IF Head(fmt) = "%"
         THEN IF Len(fmt) = 1 THEN <<Bad>>          \* stray % in format
              ELSE <<Directive(Ch(fmt, 2))>> \o FormatPattern(Suffix(fmt, 2))
         ELSE IF Head(fmt) \in SpaceSet
              THEN <<Plus("space")>> \o FormatPattern(lstrip(fmt))
              ELSE <<Lit(LowerCh(Head(fmt)))>> \o FormatPattern(Tail(fmt))

IsLeap(y) == (y % 4 = 0 /\ y % 100 # 0) \/ y % 400 = 0

DaysInMonth(y, m) ==
    IF m = 2 THEN (IF IsLeap(y) THEN 29 ELSE 28)
    ELSE IF m \in {4, 6, 9, 11} THEN 30 ELSE 31

\* the datetime constructor's range checks
ValidDateTime(t) ==
    /\ t.year >= 1 /\ t.month \in 1..12
    /\ t.day >= 1 /\ t.day <= DaysInMonth(t.year, t.month)
    /\ t.hour \in 0..23 /\ t.minute \in 0..59 /\ t.second \in 0..59

ValueError == [ok |-> FALSE]

\* the value of directive n in the match m, or its default
Field(text, m, n, dflt) ==
    IF n \in DOMAIN m.caps THEN ToInt(strip(group(text, m, n))) ELSE dflt

MonthOf(text, m) ==
    IF "b" \in DOMAIN m.caps
    THEN CHOOSE i \in 1..12 : MonthAbbr[i] = MapText(group(text, m, "b"), "lower")
    ELSE Field(text, m, "m", 1)

Checked(t) == IF ValidDateTime(t) THEN [ok |-> TRUE, value |-> t] ELSE ValueError

\* m: the match of the format's pattern at the start of the text
strptime_matched(text, m) ==
    IF ~m.ok THEN ValueError
    ELSE IF m.end # Len(text) + 1 THEN ValueError        \* unconverted data remains
    ELSE Checked([year |-> Field(text, m, "Y", 1900), month |-> MonthOf(text, m),
                  day |-> Field(text, m, "d", 1), hour |-> Field(text, m, "H", 0),
                  minute |-> Field(text, m, "M", 0), second |-> Field(text, m, "S", 0)])

strptime_pattern(text, pat) ==
    IF \E i \in 1..Len(pat) : pat[i] = Bad THEN ValueError
    ELSE strptime_matched(text, match(Re(pat), text))

strptime(text, fmt) == strptime_pattern(text, FormatPattern(fmt))

(***************************************************************************)
(* LogParser.__init__: the pattern tables                                  *)
(***************************************************************************)
D(n) == Rep("digit", n, n)

HMS == <<D(2), Lit(":"), D(2), Lit(":"), D(2)>>
YMD == <<D(4), Lit("-"), D(2), Lit("-"), D(2)>>

timestamp_patterns == <<
    \* ISO 8601: 2023-10-01T14:30:45.123Z or 2023-10-01 14:30:45
    [re |-> Re(<<Grp(1, YMD \o <<One("tsep")>> \o HMS \o
                        <<Opt(<<Lit("."), D(3)>>),
                          Opt(<<Alt(<< <<Lit("z")>>,
                                       <<One("sign"), D(2), Opt(<<Lit(":")>>), D(2)>> >>)>>)>>)>>),
     fmt |-> "%Y-%m-%d %H:%M:%S"],
    \* Common log formats: Oct 01 14:30:45
    [re |-> Re(<<Grp(1, <<Rep("alpha", 3, 3), Lit(" "), Rep("digit", 1, 2), Lit(" ")>> \o HMS)>>),
     fmt |-> "%b %d %H:%M:%S"],
    \* Apache/Nginx: [01/Oct/2023:14:30:45 +0000]
    [re |-> Re(<<Lit("["),
                 Grp(1, <<D(2), Lit("/"), Rep("alpha", 3, 3), Lit("/"), D(4), Lit(":")>> \o HMS \o
                        <<Opt(<<Lit(" "), One("sign"), D(4)>>)>>),
                 Lit("]")>>),
     fmt |-> "%d/%b/%Y:%H:%M:%S"],
    \* Syslog format: 2023-10-01 14:30:45
    [re |-> Re(<<Grp(1, YMD \o <<Lit(" ")>> \o HMS)>>),
     fmt |-> "%Y-%m-%d %H:%M:%S"],
    \* MM/dd/yyyy format: 10/01/2023 14:30:45
    [re |-> Re(<<Grp(1, <<Rep("digit", 1, 2), Lit("/"), Rep("digit", 1, 2), Lit("/"), D(4),
                          Lit(" ")>> \o HMS)>>),
     fmt |-> "%m/%d/%Y %H:%M:%S"],
    \* Alternative format with milliseconds: 2023-10-01 14:30:45.123
    [re |-> Re(<<Grp(1, YMD \o <<Lit(" ")>> \o HMS \o <<Lit("."), D(3)>>)>>),
     fmt |-> "%Y-%m-%d %H:%M:%S.%f"] >>

\* Log level patterns
log_level_pattern ==
    Re(<<Wb, Grp(1, <<Alt(<< <<Lit("trace")>>, <<Lit("debug")>>, <<Lit("info")>>,
                             <<Lit("information")>>, <<Lit("warn")>>, <<Lit("warning")>>,
                             <<Lit("error")>>, <<Lit("fatal")>>, <<Lit("critical")>>,
                             <<Lit("severe")>> >>)>>), Wb>>)

\* Error classification patterns, in the order of declaration
error_patterns == <<
    [category |-> "credit_card_errors", patterns |-> <<
        Re(Words2("payment", "gateway")),
        Re(Words2("credit", "card")),
        Re(Words2("card", "declined")),
        Re(Words2("payment", "failed")),
        Re(Words2("transaction", "timeout")),
        Re(Words2("authorization", "failed")),
        Re(Words2("invalid", "card")),
        Re(Words2("payment", "processor")),
        Re(Words2("merchant", "account")) >>],
    [category |-> "database_errors", patterns |-> <<
        Re(Words2("connection", "refused")),
        Re(Words2("cannot", "connect")),
        Re(Words2("database", "error")),
        Re(Words2("sql", "error")),
        Re(Gap2("timeout", "database")),
        Re(<<Lit("deadlock")>>),
        Re(Words2("connection", "lost")),
        Re(Gap2("mysql", "error")),
        Re(Gap2("postgresql", "error")),
        Re(Gap2("oracle", "error")) >>],
    [category |-> "server_errors", patterns |-> <<
        Re(<<Lit("http"), Star("dot"), Lit("50"), One("digit")>>),
        Re(<<Lit("status"), Star("dot"), Lit("50"), One("digit")>>),
        Re(Words2("internal", "server") \o <<Plus("space"), Lit("error")>>),
        Re(Words2("service", "unavailable")),
        Re(Words2("gateway", "timeout")),
        Re(Words2("bad", "gateway")),
        Re(Words2("server", "error")) >>],
    [category |-> "timeout_errors", patterns |-> <<
        Re(<<Lit("timeout")>>),
        Re(Words2("timed", "out")),
        Re(Words2("connection", "timeout")),
        Re(Words2("read", "timeout")),
        Re(Words2("request", "timeout")) >>],
    [category |-> "authentication_errors", patterns |-> <<
        Re(Words2("authentication", "failed")),
        Re(<<Lit("unauthorized")>>),
        Re(Words2("access", "denied")),
        Re(<<Lit("forbidden")>>),
        Re(Words2("invalid", "credentials")),
        Re(Words2("login", "failed")) >>],
    [category |-> "exception_errors", patterns |-> <<
        Re(<<Lit("exception")>>),
        Re(Words2("stack", "trace")),
        Re(Words2("null", "pointer")),
        Re(Words2("out", "of") \o <<Plus("space"), Lit("memory")>>),
        Re(Words2("segmentation", "fault")) >>] >>

\* key[_\s]+id[:\s]+([a-zA-Z0-9\-_]+)
KeyIdPattern(key) ==
    Re(<<Lit(key), Plus("usep"), Lit("id"), Plus("csep"), Grp(1, <<Plus("idch")>>)>>)

\* Transaction ID patterns (common formats)
transaction_patterns ==
    <<KeyIdPattern("transaction"), KeyIdPattern("txn"), KeyIdPattern("order"), KeyIdPattern("ref")>>

\* Warning detection patterns (e.g., PHP warnings/notices)
warning_patterns == <<
    Re(<<Wb>> \o Words2("php", "warning") \o <<Wb>>),
    Re(<<Wb>> \o Words2("php", "notice") \o <<Wb>>),
    Re(<<Wb, Lit("deprecated"), Wb>>),
    ReCS(<<Wb, Lit("E_WARNING"), Wb>>),
    ReCS(<<Wb, Lit("E_NOTICE"), Wb>>) >>

(***************************************************************************)
(* The inputs: the lines the parser is run on, and the years the clock     *)
(* passes through.                                                         *)
(***************************************************************************)
ScenarioA == "2023-10-01 14:30:45 ERROR Payment gateway timeout for transaction ID: TXN123456"
ScenarioB == "[01/Oct/2023:14:35:22 +0000] WARN Cannot connect to database"
SyslogLine == "Oct 01 14:40:15 CRITICAL HTTP/1.1 500 Internal Server Error"
IsoLine == "2023-10-01T15:15:30.123Z INFO User login successful"
SyslogOneDigit == "Oct 1 09:05:07 WARN disk almost full"
FallThrough == "2023-13-01 10:00:00 10/01/2023 14:30:45 SEVERE"
LevelFirst == "ERROR at 2023-10-01 14:30:45 boom"
NoSuchDay == "2023-02-30 10:00:00 DEBUG x"
PhraseOnly == "PHP Notice: Deprecated call"
TwoKeys == "order id: A1 txn_id: B2 login failed: connection timeout"
PlainLine == "user logged in\n"
FatalLine == "  FATAL out of memory\n"
BlankLine == "   \n"
EmptyLine == ""
WindowLine == "2023-10-01 09:30:00 ERROR Connection refused txn_id: T1\n"

SampleLines == {ScenarioA, ScenarioB, SyslogLine, IsoLine, SyslogOneDigit, FallThrough,
                LevelFirst, NoSuchDay, PhraseOnly, TwoKeys, PlainLine, FatalLine,
                BlankLine, EmptyLine, WindowLine}

\* the lines parse_line is called on
ParseLines == {ScenarioA, ScenarioB, SyslogLine, IsoLine, SyslogOneDigit, PhraseOnly,
               TwoKeys, FatalLine, BlankLine}

\* the lines a log file is made of
FileLines == {BlankLine, FatalLine, SyslogOneDigit \o "\n"}

BaseYear == 2026
MaxNewYears == 1
Years == BaseYear..(BaseYear + MaxNewYears)

\* the texts the extraction functions are applied to: the trimmed lines
SampleTexts == {strip(l) : l \in SampleLines \cup FileLines} \ {""}

(***************************************************************************)
(* LogParser.detect_timestamp.  current_year is datetime.now().year at the *)
(* moment of the call.                                                     *)
(***************************************************************************)
SyslogFormat == "%b %d %H:%M:%S"

\* the body of the try block for the k-th matcher, given its match m
parse_matched(k, line, m, current_year) ==
    LET date_format == timestamp_patterns[k].fmt
        timestamp_str == group(line, m, 1)
        \* Handle special cases
        str1 == IF "T" \in CharsOf(timestamp_str)
                THEN rstrip(MapText(timestamp_str, "T"), {"Z"})
                ELSE timestamp_str
        \* Add current year for syslog format
        str2 == IF date_format = SyslogFormat
                THEN ToStr(current_year) \o " " \o str1
                ELSE str1
        fmt2 == IF date_format = SyslogFormat THEN "%Y %b %d %H:%M:%S" ELSE date_format
    IN  strptime(Prefix(str2, 19), Prefix(fmt2, 19))

RECURSIVE detect_from(_, _, _)

\* a failed parse ends the search instead of continuing with the next matcher
after_parse_stop(k, line, m, current_year, parsed) ==
    IF parsed.ok
    THEN [timestamp |-> Some(parsed.value), remaining |-> strip(Suffix(line, m.end - 1))]
    ELSE [timestamp |-> None, remaining |-> line]

\* parsed: the outcome of the try block for the k-th matcher
after_parse(k, line, m, current_year, parsed) ==
    IF parsed.ok
    THEN [timestamp |-> Some(parsed.value),
          \* Remove timestamp from line
          remaining |-> strip(Suffix(line, m.end - 1))]
    ELSE detect_from(k + 1, line, current_year)            \* except ValueError: continue

\* m: pattern.search(line) of the k-th matcher
after_search(k, line, m, current_year) ==
    IF ~m.ok THEN detect_from(k + 1, line, current_year)
    ELSE after_parse(k, line, m, current_year, parse_matched(k, line, m, current_year))

\* the for loop from the k-th matcher on
detect_from(k, line, current_year) ==
    IF k > Len(timestamp_patterns) THEN [timestamp |-> None, remaining |-> line]
    ELSE after_search(k, line, search(timestamp_patterns[k].re, line), current_year)

\* TLC evaluates a constant definition once: the results on the sample texts
detect_timestamp_table ==
    Tabulate([q \in SampleTexts \X Years |-> detect_from(1, q[1], q[2])])

\* hidden state: a line without a timestamp takes the one of the line parsed before
carried(r) ==
    IF IsNone(r.timestamp) /\ ~IsNone(last) /\ ~IsNone(Val(last).result)
    THEN [r EXCEPT !.timestamp = Val(Val(last).result).timestamp]
    ELSE r

detect_timestamp_carry(line, current_year) ==
    carried(Lookup(detect_timestamp_table, <<line, current_year>>,
                   detect_from(1, line, current_year)))

\* the pair (timestamp or None, remaining line)
detect_timestamp(line, current_year) ==
    Lookup(detect_timestamp_table, <<line, current_year>>, detect_from(1, line, current_year))

(***************************************************************************)
(* LogParser.extract_log_level, classify_error, extract_transaction_id     *)
(***************************************************************************)
\* m: log_level_pattern.search(line)
level_matched(line, m) ==
    IF m.ok
    THEN [level |-> Some(MapText(group(line, m, 1), "upper")),
          \* Remove the matched level from line
          remaining |-> strip(Prefix(line, m.start - 1) \o Suffix(line, m.end - 1))]
    ELSE [level |-> None, remaining |-> line]

level_of(line) == level_matched(line, search(log_level_pattern, line))

extract_log_level_table ==
    Tabulate([t \in SampleTexts \cup
                    {detect_timestamp_table[q].remaining : q \in SampleTexts \X Years}
                 |-> level_of(t)])

\* the pair (level or None, remaining line)
extract_log_level(line) == Lookup(extract_log_level_table, line, level_of(line))

\* pattern.search(line) for some pattern of the list
SomeMatches(patterns, line) == \E i \in 1..Len(patterns) : search(patterns[i], line).ok

PatternLists == {error_patterns[i].patterns : i \in 1..Len(error_patterns)} \cup {warning_patterns}

matches_table == Tabulate([q \in PatternLists \X SampleTexts |-> SomeMatches(q[1], q[2])])

\* any(p.search(line) for p in patterns)
AnyMatches(patterns, line) ==
    Lookup(matches_table, <<patterns, line>>, SomeMatches(patterns, line))

RECURSIVE classify_break_outer(_, _)
\* the loop with a break that leaves the loop over the categories too
classify_break_outer(table, line) ==
    IF Len(table) = 0 THEN << >>
    ELSE IF AnyMatches(Head(table).patterns, line) THEN <<Head(table).category>>
    ELSE classify_break_outer(Tail(table), line)

RECURSIVE classify_over(_, _)
\* the loop of classify_error over a table of (category, patterns) in its order
classify_over(table, line) ==
    IF Len(table) = 0 THEN << >>
    ELSE (IF AnyMatches(Head(table).patterns, line)
          THEN <<Head(table).category>>        \* Only add category once
          ELSE << >>) \o classify_over(Tail(table), line)

classify_error(line) == classify_over(error_patterns, line)

RECURSIVE transaction_from(_, _)
\* m: pattern.search(line) of the k-th key pattern
transaction_matched(k, line, m) ==
    IF m.ok THEN Some(group(line, m, 1)) ELSE transaction_from(k + 1, line)

\* the capture of the last key pattern, from the k-th on, that matches
transaction_from_last(k, line) ==
    LET hits == {j \in k..Len(transaction_patterns) : search(transaction_patterns[j], line).ok}
    IN  IF hits = {} THEN None
        ELSE LET j == CHOOSE a \in hits : \A b \in hits : b <= a
             IN  Some(group(line, search(transaction_patterns[j], line), 1))

\* the for loop from the k-th key pattern on
transaction_from(k, line) ==
    IF k > Len(transaction_patterns) THEN None
    ELSE transaction_matched(k, line, search(transaction_patterns[k], line))

extract_transaction_id_table == Tabulate([t \in SampleTexts |-> transaction_from(1, t)])

extract_transaction_id(line) ==
    Lookup(extract_transaction_id_table, line, transaction_from(1, line))

(***************************************************************************)
(* LogParser.parse_line.  self is the parser (its configuration);          *)
(* current_year is what datetime.now().year returns during the call.  The  *)
(* result is None (no record) or Some(record).                             *)
(***************************************************************************)
WarningLevels == {"WARN", "WARNING"}
StrictLevels == {"ERROR", "FATAL", "CRITICAL"}

\* is_warning without the warning phrases
is_warning_level_only(log_level, original_line) ==
    IF ~IsNone(log_level) THEN Val(log_level) \in WarningLevels ELSE FALSE

\* Determine warnings
is_warning_of(log_level, original_line) ==
    LET is_warning_level == IF ~IsNone(log_level) THEN Val(log_level) \in WarningLevels
                            ELSE FALSE
        is_warning_phrase == AnyMatches(warning_patterns, original_line)
    IN  is_warning_level \/ is_warning_phrase

\* is_error_strict that looks at the categories only when no level was extracted
is_error_strict_level_first(log_level, error_categories) ==
    IF ~IsNone(log_level) THEN Val(log_level) \in StrictLevels
    ELSE Len(error_categories) > 0

\* Strict errors (do not include warnings)
is_error_strict_of(log_level, error_categories) ==
    IF ~IsNone(log_level)
    THEN Len(error_categories) > 0 \/ Val(log_level) \in StrictLevels
    ELSE Len(error_categories) > 0

\* has_error that counts every warning, whatever the configuration
has_error_any_warning(self, is_error_strict, is_warning) == is_error_strict \/ is_warning

\* Final has_error depends on configuration
has_error_of(self, is_error_strict, is_warning) ==
    is_error_strict \/ (is_warning /\ self.treat_warnings_as_errors)

\* the record, given the flags
line_record(self, original_line, file_path, line_number, timestamp, lv, error_categories, is_warning, is_error_strict) ==
    [timestamp |-> timestamp,
     log_level |-> lv.level,
     message |-> lv.remaining,
     original_line |-> original_line,
     error_categories |-> error_categories,
     transaction_id |-> extract_transaction_id(original_line),
     file_path |-> file_path,
     line_number |-> line_number,
     is_warning |-> is_warning,
     is_error_strict |-> is_error_strict,
     has_error |-> has_error_of(self, is_error_strict, is_warning)]

\* lv: the extracted level and what remains; error_categories: the labels
after_level(self, original_line, file_path, line_number, timestamp, lv, error_categories) ==
    line_record(self, original_line, file_path, line_number, timestamp, lv, error_categories,
                is_warning_of(lv.level, original_line),
                is_error_strict_of(lv.level, error_categories))

\* ts: the extracted timestamp and what remains of the line
after_timestamp(self, original_line, file_path, line_number, ts) ==
    after_level(self, original_line, file_path, line_number, ts.timestamp,
                extract_log_level(ts.remaining),     \* Extract log level
                classify_error(original_line))       \* Classify errors

\* parse_line without the test for a blank line
parse_line_keep_blank(self, line, file_path, line_number, current_year) ==
    Some(after_timestamp(self, strip(line), file_path, line_number,
                         detect_timestamp(strip(line), current_year)))

parse_line(self, line, file_path, line_number, current_year) ==
    LET original_line == strip(line)
    IN  IF original_line = "" THEN None
        ELSE Some(after_timestamp(self, original_line, file_path, line_number,
                                  detect_timestamp(original_line, current_year)))

(***************************************************************************)
(* LogParser.parse_file: the records of the lines of the file at file_path,*)
(* in file order, up to the line cap max_lines (None or Some(n)).          *)
(***************************************************************************)
\* `max_lines and ...`: None and 0 are false
Truthy(max_lines) == ~IsNone(max_lines) /\ Val(max_lines) # 0

\* if parsed_line: parsed_lines.append(parsed_line)
Kept(parsed_line) == IF ~IsNone(parsed_line) THEN <<Val(parsed_line)>> ELSE << >>

RECURSIVE parse_from(_, _, _, _, _, _)
\* the for loop of parse_file from physical line line_number on
parse_from(self, lines, file_path, line_number, max_lines, current_year) ==
    IF line_number > Len(lines) THEN << >>
    ELSE IF Truthy(max_lines) /\ line_number > Val(max_lines) THEN << >>      \* break
    ELSE Kept(parse_line(self, lines[line_number], file_path, line_number, current_year))
            \o parse_from(self, lines, file_path, line_number + 1, max_lines, current_year)

parse_file(self, files, file_path, max_lines, current_year) ==
    parse_from(self, files[file_path], file_path, 1, max_lines, current_year)

(***************************************************************************)
(* The state machine.  A parser instance holds only its configuration      *)
(* (LogParser.__init__), so an instance is the record of that              *)
(* configuration; the calls of a behaviour are made on any instance.       *)
(***************************************************************************)
Parsers == {[treat_warnings_as_errors |-> t] : t \in BOOLEAN}

LogPath == "app.log"
Paths == {LogPath}

MaxLineNo == 1
MaxFileLines == 3
MaxCap == 4

RECURSIVE SeqsUpTo(_, _)
\* the sequences over S of length at most n
SeqsUpTo(S, n) ==
    IF n = 0 THEN {<< >>}
    ELSE LET shorter == SeqsUpTo(S, n - 1)
         IN  shorter \cup {Append(q, e) : q \in shorter, e \in S}

Files == SeqsUpTo(FileLines, MaxFileLines)

\* max_lines as a caller passes it: None, or any integer
Caps == {None} \cup {Some(n) : n \in -1..MaxCap}

NoFiles == [p \in Paths |-> << >>]

Init ==
    /\ clock = BaseYear
    /\ first = None
    /\ last = None
    /\ between = FALSE
    /\ ts_call = None
    /\ cls_call = None
    /\ fs \in [Paths -> Files]
    /\ run_a = None
    /\ run_b = None
    /\ io_call = None
    /\ pool = None
    /\ df = None
    /\ out = None
    /\ app = None

\* no log file written yet
InitEmpty == Init /\ fs = NoFiles

SameInputs(c, d) ==
    /\ c.self = d.self
    /\ c.line = d.line
    /\ c.file_path = d.file_path
    /\ c.line_number = d.line_number

\* the call is recorded as the latest one, and as the first one if it is
Recorded(call) ==
    /\ first' = IF IsNone(first) THEN Some(call) ELSE first
    /\ last' = Some(call)
    /\ between' = (between \/ (~IsNone(first) /\ ~SameInputs(call, Val(first))))

\* a call parser.parse_line(line, file_path, line_number)
ParseLine(self, line, file_path, line_number) ==
    /\ Recorded([self |-> self, line |-> line, file_path |-> file_path,
                 line_number |-> line_number, year |-> clock,
                 result |-> parse_line(self, line, file_path, line_number, clock)])
    /\ UNCHANGED <<clock, ts_call, cls_call, fs, run_a, run_b, later_vars>>

\* a call parser.detect_timestamp(line)
DetectTimestamp(line) ==
    /\ ts_call' = Some([line |-> line, year |-> clock, result |-> detect_timestamp(line, clock)])
    /\ UNCHANGED <<clock, first, last, between, cls_call, fs, run_a, run_b, later_vars>>

\* a call parser.classify_error(line)
ClassifyError(line) ==
    /\ cls_call' = Some([line |-> line, result |-> classify_error(line)])
    /\ UNCHANGED <<clock, first, last, between, ts_call, fs, run_a, run_b, later_vars>>

\* a call parser.parse_file(file_path, max_lines)
ParseFile(self, file_path, max_lines) ==
    /\ run_a' = run_b
    /\ run_b' = Some([self |-> self, file_path |-> file_path, max_lines |-> max_lines,
                      result |-> parse_file(self, fs, file_path, max_lines, clock)])
    /\ UNCHANGED <<clock, first, last, between, ts_call, cls_call, fs, later_vars>>

\* the calendar year changes
NewYear ==
    /\ clock < BaseYear + MaxNewYears
    /\ clock' = clock + 1
    /\ UNCHANGED <<first, last, between, ts_call, cls_call, fs, run_a, run_b, later_vars>>

NextLine ==
    \/ \E self \in Parsers, line \in ParseLines, n \in 1..MaxLineNo :
            ParseLine(self, line, LogPath, n)
    \/ NewYear

NextExtract ==
    \/ \E line \in SampleLines : DetectTimestamp(strip(line))
    \/ \E line \in SampleLines : ClassifyError(strip(line))
    \/ NewYear

NextFile ==
    \E self \in Parsers, p \in Paths, max_lines \in Caps : ParseFile(self, p, max_lines)

\* calls of parse_line
SpecLine == InitEmpty /\ [][NextLine]_vars
\* calls of detect_timestamp and classify_error
SpecExtract == InitEmpty /\ [][NextExtract]_vars
\* calls of parse_file on the files of the file system
SpecFile == Init /\ [][NextFile]_vars

(***************************************************************************)
(* The claims                                                              *)
(***************************************************************************)
ToSet(q) == {q[i] : i \in 1..Len(q)}

Categories == {error_patterns[i].category : i \in 1..Len(error_patterns)}

\* the latest parse_line call produced a record
Produced == ~IsNone(last) /\ ~IsNone(Val(last).result)

LastRecord == Val(Val(last).result)

\* C1: in every record parse_line produces, has_error implies is_error_strict, or
\* is_warning with treat_warnings_as_errors enabled on the parser; and
\* error_categories is always a list of category labels, possibly empty.
C1_HasErrorImplies ==
    Produced =>
        /\ LastRecord.has_error =>
              \/ LastRecord.is_error_strict
              \/ LastRecord.is_warning /\ Val(last).self.treat_warnings_as_errors
        /\ "error_categories" \in DOMAIN LastRecord
        /\ LastRecord.error_categories \in Seq(Categories)

\* a warning that counts as an error only by the configuration
C1_Witness ==
    /\ Produced
    /\ LastRecord.has_error /\ ~LastRecord.is_error_strict /\ LastRecord.is_warning
    /\ LastRecord.error_categories = << >>

\* C2: for every non-blank line, is_error_strict is true exactly when the list of
\* category labels is non-empty or the extracted level is ERROR, FATAL or
\* CRITICAL, whether a level was extracted or not.
C2_StrictExactly ==
    Produced =>
        (LastRecord.is_error_strict <=>
            \/ Len(LastRecord.error_categories) > 0
            \/ ~IsNone(LastRecord.log_level)
                 /\ Val(LastRecord.log_level) \in {"ERROR", "FATAL", "CRITICAL"})

\* a WARN, WARNING, SEVERE or INFO line without a category is no strict error
C2_Witness ==
    /\ Produced
    /\ ~IsNone(LastRecord.log_level)
    /\ Val(LastRecord.log_level) \in {"WARN", "WARNING", "SEVERE", "INFO"}
    /\ LastRecord.error_categories = << >>
    /\ ~LastRecord.is_error_strict

\* the texts in which some warning-phrase pattern matches
WarningPhraseTexts ==
    {t \in SampleTexts : \E i \in 1..Len(warning_patterns) : search(warning_patterns[i], t).ok}

\* C3: for every non-blank line, is_warning is true exactly when the extracted
\* level is WARN or WARNING or some warning-phrase pattern matches the original
\* line; two calls on the same line in the same year that differ in
\* treat_warnings_as_errors give the same is_warning.
C3_WarningExactly ==
    /\ Produced =>
          (LastRecord.is_warning <=>
              \/ ~IsNone(LastRecord.log_level)
                   /\ Val(LastRecord.log_level) \in {"WARN", "WARNING"}
              \/ LastRecord.original_line \in WarningPhraseTexts)
    /\ (Produced /\ Val(first).line = Val(last).line /\ Val(first).year = Val(last).year) =>
          Val(Val(first).result).is_warning = LastRecord.is_warning

\* a warning by its phrase alone, with no level, no category and warnings not
\* counted as errors
C3_Witness ==
    /\ Produced
    /\ LastRecord.is_warning
    /\ IsNone(LastRecord.log_level)
    /\ LastRecord.error_categories = << >>
    /\ ~Val(last).self.treat_warnings_as_errors
    /\ Val(first).line = Val(last).line
    /\ Val(first).self # Val(last).self

\* the latest parse_file run, the lines of its file and its records
Ran == ~IsNone(run_b)
RunLines == fs[Val(run_b).file_path]
RunRecords == Val(run_b).result

IsBlank(line) == strip(line) = ""

\* C4: a line that is empty after trimming produces no record: parse_line gives
\* no record for it, parse_file appends nothing for it, and every record of a
\* parse_file result has a non-empty original_line.
C4_BlankDropped ==
    Ran =>
        /\ \A i \in 1..Len(RunLines) :
              IsBlank(RunLines[i]) =>
                 /\ IsNone(parse_line(Val(run_b).self, RunLines[i], Val(run_b).file_path, i, clock))
                 /\ \A j \in 1..Len(RunRecords) : RunRecords[j].line_number # i
        /\ \A j \in 1..Len(RunRecords) : RunRecords[j].original_line # ""

\* a file with a blank line before a line that gave a record
C4_Witness ==
    /\ Ran
    /\ \E i \in 1..Len(RunLines) :
          /\ IsBlank(RunLines[i])
          /\ \E j \in 1..Len(RunRecords) : RunRecords[j].line_number > i

\* the first matcher in priority order that matches the line and whose text parses,
\* and what detect_timestamp returns for it
Works(k, line, year) ==
    /\ search(timestamp_patterns[k].re, line).ok
    /\ parse_matched(k, line, search(timestamp_patterns[k].re, line), year).ok

ResultOf(k, line, year) ==
    [timestamp |->
        Some(parse_matched(k, line, search(timestamp_patterns[k].re, line), year).value),
     remaining |-> strip(Suffix(line, search(timestamp_patterns[k].re, line).end - 1))]

Matchers == 1..Len(timestamp_patterns)

\* C5: detect_timestamp returns the result of the first of the six matchers, in
\* their declared order, that matches the line and parses; a matcher that matches
\* but fails to parse is skipped; when none succeeds the result is no timestamp
\* and the line unchanged.
C5_FirstSuccess ==
    ~IsNone(ts_call) =>
        LET c == Val(ts_call)
            ok == {k \in Matchers : Works(k, c.line, c.year)}
        IN  /\ Len(timestamp_patterns) = 6
            /\ ok = {} => c.result = [timestamp |-> None, remaining |-> c.line]
            /\ ok # {} =>
                  c.result = ResultOf(CHOOSE k \in ok : \A j \in ok : k <= j, c.line, c.year)

\* a matcher matched and failed to parse, and a later one gave the timestamp
C5_Witness ==
    /\ ~IsNone(ts_call)
    /\ ~IsNone(Val(ts_call).result.timestamp)
    /\ \E j, k \in Matchers :
          /\ j < k
          /\ search(timestamp_patterns[j].re, Val(ts_call).line).ok
          /\ ~Works(j, Val(ts_call).line, Val(ts_call).year)
          /\ Works(k, Val(ts_call).line, Val(ts_call).year)

\* C6: parsing the line "[01/Oct/2023:14:35:22 +0000] WARN Cannot connect to database"
\* gives the timestamp 2023-10-01T14:35:22, level WARN, category database_errors,
\* is_warning and is_error_strict.
C6_ScenarioB ==
    (Produced /\ Val(last).line = ScenarioB) =>
        /\ LastRecord.timestamp = Some([year |-> 2023, month |-> 10, day |-> 1,
                                        hour |-> 14, minute |-> 35, second |-> 22])
        /\ LastRecord.log_level = Some("WARN")
        /\ LastRecord.error_categories = <<"database_errors">>
        /\ LastRecord.is_warning
        /\ LastRecord.is_error_strict

BothCalls == ~IsNone(first) /\ ~IsNone(last)

\* C7, as claimed: two parse_line calls with the same line, file path, line number
\* and configuration return identical records, whatever the moment of each call.
C7_SameInputsSameRecord ==
    (BothCalls /\ SameInputs(Val(first), Val(last))) =>
        Val(first).result = Val(last).result

\* the line holds a month-day-time text (the syslog-style matcher matches it)
HasSyslogText(line) == search(timestamp_patterns[2].re, strip(line)).ok

\* C7, amended: two parse_line calls with the same line, file path, line number and
\* configuration return identical records when both are made in the same calendar
\* year, or when the line holds no syslog-style month-day-time text.
C7_SameYearSameRecord ==
    (/\ BothCalls
     /\ SameInputs(Val(first), Val(last))
     /\ Val(first).year = Val(last).year \/ ~HasSyslogText(Val(last).line)) =>
        Val(first).result = Val(last).result

\* the same call made again after a call with other inputs, in the same year, on a
\* line with a syslog-style timestamp
C7_Witness ==
    /\ BothCalls
    /\ SameInputs(Val(first), Val(last))
    /\ between
    /\ Val(first).year = Val(last).year
    /\ HasSyslogText(Val(last).line)
    /\ ~IsNone(Val(last).result)

\* the declaration orders of the categories: error_patterns rearranged
Orders ==
    {f \in [1..Len(error_patterns) -> 1..Len(error_patterns)] :
        \A i, j \in 1..Len(error_patterns) : f[i] = f[j] => i = j}

Declared(f) == [i \in 1..Len(error_patterns) |-> error_patterns[f[i]]]

\* the label sets classify_error's loop gives over every declaration order
LabelSetsOf(line) == {ToSet(classify_over(Declared(f), line)) : f \in Orders}

label_sets_table == Tabulate([line \in SampleTexts |-> LabelSetsOf(line)])

\* the place of a category label in the declared order
PlaceOf(label) == CHOOSE i \in 1..Len(error_patterns) : error_patterns[i].category = label

\* C8: classify_error returns a list that holds a category label exactly when some
\* pattern of that category matches the line, holds each label at most once, lists
\* the labels in the declared category order (credit_card, database, server, timeout,
\* authentication, exception), and the set of labels is the same for every
\* permutation of the declaration order.
C8_LabelsExactOrdered ==
    ~IsNone(cls_call) =>
        LET c == Val(cls_call)
        IN  /\ [i \in 1..Len(error_patterns) |-> error_patterns[i].category]
                  = <<"credit_card_errors", "database_errors", "server_errors",
                      "timeout_errors", "authentication_errors", "exception_errors">>
            /\ ToSet(c.result) \subseteq Categories
            /\ \A i \in 1..Len(error_patterns) :
                  error_patterns[i].category \in ToSet(c.result)
                     <=> SomeMatches(error_patterns[i].patterns, c.line)
            /\ \A i, j \in 1..Len(c.result) :
                  i < j => PlaceOf(c.result[i]) < PlaceOf(c.result[j])
            /\ Lookup(label_sets_table, c.line, LabelSetsOf(c.line)) = {ToSet(c.result)}

\* a line of several categories, one of them matched by more than one pattern
C8_Witness ==
    /\ ~IsNone(cls_call)
    /\ Len(Val(cls_call).result) >= 2
    /\ \E i \in 1..Len(error_patterns) :
          \E j, k \in 1..Len(error_patterns[i].patterns) :
             /\ j < k
             /\ search(error_patterns[i].patterns[j], Val(cls_call).line).ok
             /\ search(error_patterns[i].patterns[k], Val(cls_call).line).ok

\* the physical lines a cap of N lets through: the first N, all of them without a cap
Within(max_lines, lines) ==
    IF IsNone(max_lines) THEN Len(lines)
    ELSE IF Val(max_lines) < Len(lines) THEN Val(max_lines) ELSE Len(lines)

\* C9: parse_file with a line cap N returns records exactly for the non-blank lines
\* among the first N physical lines of the file, so at most N records, in file order
\* with strictly increasing 1-based line numbers; a shorter file gives all its
\* non-blank lines, and without a cap every non-blank line gives a record.
C9_CapHonoured ==
    (Ran /\ (IsNone(Val(run_b).max_lines) \/ Val(Val(run_b).max_lines) >= 0)) =>
        LET cap == Val(run_b).max_lines
            n == Within(cap, RunLines)
        IN  /\ {RunRecords[j].line_number : j \in 1..Len(RunRecords)}
                  = {i \in 1..n : ~IsBlank(RunLines[i])}
            /\ \A j \in 1..Len(RunRecords) :
                  RunRecords[j].original_line = strip(RunLines[RunRecords[j].line_number])
            /\ \A i, j \in 1..Len(RunRecords) :
                  i < j => RunRecords[i].line_number < RunRecords[j].line_number
            /\ ~IsNone(cap) => Len(RunRecords) <= Val(cap)

TwoRuns ==
    /\ ~IsNone(run_a)
    /\ ~IsNone(run_b)
    /\ Val(run_a).file_path = Val(run_b).file_path
    /\ ~IsNone(Val(run_a).max_lines)
    /\ ~IsNone(Val(run_b).max_lines)

\* C10: for a fixed file and two integer line caps a <= b, parse_file with cap b
\* returns at least as many records as with cap a.
C10_MonotoneInCap ==
    TwoRuns =>
        /\ Val(Val(run_a).max_lines) <= Val(Val(run_b).max_lines)
              => Len(Val(run_a).result) <= Len(Val(run_b).result)
        /\ Val(Val(run_b).max_lines) <= Val(Val(run_a).max_lines)
              => Len(Val(run_b).result) <= Len(Val(run_a).result)

(***************************************************************************)
(* LogParser.parse_file on a file that fails: open raises, or the read of  *)
(* a physical line raises.  fault is None (no failure), Some(0) (open      *)
(* raises) or Some(j) (the read of line j raises).                         *)
(***************************************************************************)
\* LogParser(): treat_warnings_as_errors defaults to False
DefaultParser == [treat_warnings_as_errors |-> FALSE]

Raises(fault, line_number) == ~IsNone(fault) /\ Val(fault) = line_number

RECURSIVE read_from(_, _, _, _, _, _, _, _)
\* the for loop inside the try; parsed_lines is what was appended so far, and is
\* what the except clause leaves to be returned
read_from(self, lines, file_path, line_number, max_lines, current_year, fault, parsed_lines) ==
    IF Raises(fault, line_number) THEN parsed_lines          \* except Exception as e
    ELSE IF line_number > Len(lines) THEN parsed_lines
    ELSE IF Truthy(max_lines) /\ line_number > Val(max_lines) THEN parsed_lines   \* break
    ELSE read_from(self, lines, file_path, line_number + 1, max_lines, current_year, fault,
                   parsed_lines \o Kept(parse_line(self, lines[line_number], file_path,
                                                   line_number, current_year)))

\* what the call gives its caller: except Exception lets nothing out of parse_file
parse_file_io(self, files, file_path, max_lines, current_year, fault) ==
    [raised |-> FALSE,
     value |-> IF Raises(fault, 0) THEN << >>                \* open raises: parsed_lines = []
               ELSE read_from(self, files[file_path], file_path, 1, max_lines,
                              current_year, fault, << >>)]

\* the failures a file of these lines can have
Faults(lines) == {None} \cup {Some(j) : j \in 0..Len(lines)}

\* a call parser.parse_file(file_path, max_lines) during which the file fails as fault says
ParseFileFault(self, file_path, max_lines, fault) ==
    /\ io_call' = Some([self |-> self, file_path |-> file_path, max_lines |-> max_lines,
                        fault |-> fault,
                        outcome |-> parse_file_io(self, fs, file_path, max_lines, clock, fault)])
    /\ UNCHANGED <<clock, first, last, between, ts_call, cls_call, fs, run_a, run_b, pool, df, out, app>>

NextFault ==
    \E p \in Paths, max_lines \in Caps :
        \E fault \in Faults(fs[p]) : ParseFileFault(DefaultParser, p, max_lines, fault)

\* calls of parse_file on files that may fail
SpecFault == Init /\ [][NextFault]_vars

\* C11: if opening or reading the file fails at any point, at open or part-way
\* through the file, parse_file raises nothing and returns an empty record sequence.
C11_FailureGivesEmpty ==
    (~IsNone(io_call) /\ ~IsNone(Val(io_call).fault)) =>
        /\ ~Val(io_call).outcome.raised
        /\ Val(io_call).outcome.value = << >>

(***************************************************************************)
(* LogParser.parse_files_parallel: a ThreadPoolExecutor of max_workers     *)
(* threads, one future per file path, collected as they complete.          *)
(***************************************************************************)
PoolPaths == {"a.log", "b.log"}

\* the files of the dispatcher's runs
PoolFs == [p \in PoolPaths |->
              IF p = "a.log" THEN <<FatalLine, SyslogOneDigit \o "\n">>
              ELSE <<BlankLine, FatalLine>>]

MaxSubmitted == 2
MaxWorkers == 2

InitPool ==
    /\ clock = BaseYear
    /\ first = None
    /\ last = None
    /\ between = FALSE
    /\ ts_call = None
    /\ cls_call = None
    /\ fs = PoolFs
    /\ run_a = None
    /\ run_b = None
    /\ io_call = None
    /\ pool = None
    /\ df = None
    /\ out = None
    /\ app = None

\* the futures that a worker thread is executing
Executing(p) == {i \in 1..Len(p.futures) : p.futures[i].state = "running"}

\* the work queue is first in, first out
NextQueued(p, i) ==
    /\ p.futures[i].state = "pending"
    /\ \A j \in 1..(i - 1) : p.futures[j].state # "pending"

\* a thread takes work without a limit on the threads
WorkerUnbounded(p) == TRUE

\* a thread is idle, or fewer than max_workers threads exist
WorkerFree(p) == Cardinality(Executing(p)) < p.max_workers

\* every future was yielded some time
AnyCollected(p) ==
    Len(p.futures) = 0 \/ \E i \in 1..Len(p.futures) : p.futures[i].collected

\* as_completed is exhausted: every future was yielded
AllCollected(p) == \A i \in 1..Len(p.futures) : p.futures[i].collected

PoolVarsUnchanged ==
    UNCHANGED <<clock, first, last, between, ts_call, cls_call, fs, run_a, run_b, io_call, df, out, app>>

\* parser.parse_files_parallel(file_paths, max_workers): all_parsed_lines = []
CallParallel(self, file_paths, max_workers) ==
    /\ IsNone(pool)
    /\ pool' = Some([self |-> self, file_paths |-> file_paths, max_workers |-> max_workers,
                     pc |-> IF Len(file_paths) = 0 THEN "collect" ELSE "submit",
                     futures |-> << >>, all_parsed_lines |-> << >>])
    /\ PoolVarsUnchanged

\* executor.submit(self.parse_file, file_path, max_lines=max_lines_per_file)
Submit ==
    /\ ~IsNone(pool)
    /\ Val(pool).pc = "submit"
    /\ LET p == Val(pool)
           futures == Append(p.futures,
                             [file_path |-> p.file_paths[Len(p.futures) + 1],
                              state |-> "pending", fault |-> None, raised |-> FALSE,
                              result |-> << >>, collected |-> FALSE])
       IN  pool' = Some([p EXCEPT !.futures = futures,
                                  !.pc = IF Len(futures) = Len(p.file_paths)
                                         THEN "collect" ELSE "submit"])
    /\ PoolVarsUnchanged

\* a worker thread takes the next work item off the queue
StartTask(i) ==
    /\ ~IsNone(pool)
    /\ NextQueued(Val(pool), i)
    /\ WorkerFree(Val(pool))
    /\ pool' = Some([Val(pool) EXCEPT !.futures[i].state = "running"])
    /\ PoolVarsUnchanged

\* the task's parse_file call returns; its file failed as fault says
FinishTask(i, fault) ==
    /\ ~IsNone(pool)
    /\ Val(pool).futures[i].state = "running"
    /\ LET p == Val(pool)
           outcome == parse_file_io(p.self, fs, p.futures[i].file_path, None, clock, fault)
       IN  pool' = Some([p EXCEPT !.futures[i].state = "finished",
                                  !.futures[i].fault = fault,
                                  !.futures[i].raised = outcome.raised,
                                  !.futures[i].result = outcome.value])
    /\ PoolVarsUnchanged

\* the slice put in after the first record of the list
extend_inside(all_parsed_lines, parsed_lines) ==
    IF Len(all_parsed_lines) = 0 THEN parsed_lines
    ELSE <<Head(all_parsed_lines)>> \o parsed_lines \o Tail(all_parsed_lines)

\* all_parsed_lines.extend(parsed_lines), in the thread of the caller
extend(all_parsed_lines, parsed_lines) == all_parsed_lines \o parsed_lines

\* one turn of the loop over as_completed: future.result() and extend, or the
\* except clause when the task raised
Collect(i) ==
    /\ ~IsNone(pool)
    /\ Val(pool).pc = "collect"
    /\ Val(pool).futures[i].state = "finished"
    /\ ~Val(pool).futures[i].collected
    /\ LET p == Val(pool)
       IN  pool' = Some([p EXCEPT !.futures[i].collected = TRUE,
                                  !.all_parsed_lines =
                                      IF p.futures[i].raised THEN @
                                      ELSE extend(@, p.futures[i].result)])
    /\ PoolVarsUnchanged

\* the loop ends, the executor shuts down, return all_parsed_lines
ReturnParallel ==
    /\ ~IsNone(pool)
    /\ Val(pool).pc = "collect"
    /\ AllCollected(Val(pool))
    /\ pool' = Some([Val(pool) EXCEPT !.pc = "returned"])
    /\ PoolVarsUnchanged

\* the file paths of a call
PathLists == SeqsUpTo(PoolPaths, MaxSubmitted)

\* the futures submitted so far
Futures == IF IsNone(pool) THEN {} ELSE 1..Len(Val(pool).futures)

NextPool ==
    \/ \E file_paths \in PathLists, w \in 1..MaxWorkers :
            CallParallel(DefaultParser, file_paths, w)
    \/ Submit
    \/ \E i \in Futures : StartTask(i)
    \/ \E i \in Futures :
          \E fault \in Faults(fs[Val(pool).futures[i].file_path]) : FinishTask(i, fault)
    \/ \E i \in Futures : Collect(i)
    \/ ReturnParallel

\* one call of parse_files_parallel and the threads of its executor
SpecPool == InitPool /\ [][NextPool]_vars

\* C12: at every moment of parse_files_parallel with worker bound W, at most W
\* parse_file tasks are executing, however many files were submitted.
C12_AtMostWExecuting ==
    ~IsNone(pool) => Cardinality(Executing(Val(pool))) <= Val(pool).max_workers

\* every worker is busy while a submitted file waits in the queue
C12_Witness ==
    /\ ~IsNone(pool)
    /\ Cardinality(Executing(Val(pool))) = Val(pool).max_workers
    /\ \E i \in Futures : Val(pool).futures[i].state = "pending"

\* how many times r occurs in the sequence q
Count(q, r) == Cardinality({i \in 1..Len(q) : q[i] = r})

RECURSIVE TaskRecords(_, _)
\* the records the first n tasks returned, one sequence after the other
TaskRecords(futures, n) ==
    IF n = 0 THEN << >>
    ELSE TaskRecords(futures, n - 1)
            \o (IF futures[n].raised THEN << >> ELSE futures[n].result)

Returned == ~IsNone(pool) /\ Val(pool).pc = "returned"

\* C13: parse_files_parallel returns only after the task of every submitted file
\* has completed, under every interleaving of completions, and what it returns is
\* the multiset union of the record sequences the tasks returned: no record lost,
\* duplicated or invented.
C13_ReturnsUnionAfterAll ==
    Returned =>
        LET p == Val(pool)
            produced == TaskRecords(p.futures, Len(p.futures))
        IN  /\ Len(p.futures) = Len(p.file_paths)
            /\ \A i \in 1..Len(p.futures) :
                  /\ p.futures[i].file_path = p.file_paths[i]
                  /\ p.futures[i].state = "finished"
            /\ Len(p.all_parsed_lines) = Len(produced)
            /\ \A r \in ToSet(produced) \cup ToSet(p.all_parsed_lines) :
                  Count(p.all_parsed_lines, r) = Count(produced, r)

\* two tasks with records, collected in the reverse of the order of submission
C13_Witness ==
    /\ Returned
    /\ Len(Val(pool).futures) = 2
    /\ Val(pool).futures[1].result # << >>
    /\ Val(pool).futures[2].result # << >>
    /\ Val(pool).futures[1].file_path # Val(pool).futures[2].file_path
    /\ Val(pool).all_parsed_lines = Val(pool).futures[2].result \o Val(pool).futures[1].result

\* C14: a file whose task fails contributes zero records and changes no sibling:
\* every other file contributes exactly the records it gives when parsed alone, and
\* the call returns without raising.
C14_FailedFileGivesNothing ==
    Returned =>
        LET p == Val(pool)
        IN  /\ \A i \in 1..Len(p.futures) :
                  p.futures[i].result =
                      IF ~IsNone(p.futures[i].fault) THEN << >>
                      ELSE parse_file(p.self, fs, p.futures[i].file_path, None, clock)
            /\ \A r \in ToSet(p.all_parsed_lines) :
                  Count(p.all_parsed_lines, r)
                     = Count(TaskRecords(p.futures, Len(p.futures)), r)

(***************************************************************************)
(* src/src/data_analyzer.py.  A DataFrame is its set of columns and the    *)
(* sequence of its rows; a cell of the timestamp column is NaT (a missing  *)
(* value), a datetime, or a string that to_datetime has yet to convert.    *)
(***************************************************************************)
NaT == [kind |-> "null"]
Dt(t) == [kind |-> "datetime", value |-> t]
Str(text) == [kind |-> "str", text |-> text]

DateTime(y, mo, d, h, mi, sec) ==
    [year |-> y, month |-> mo, day |-> d, hour |-> h, minute |-> mi, second |-> sec]

Fields(t) == <<t.year, t.month, t.day, t.hour, t.minute, t.second>>

\* a <= b on datetimes
Le(a, b) ==
    \/ a = b
    \/ \E i \in 1..6 : /\ Fields(a)[i] < Fields(b)[i]
                       /\ \A j \in 1..(i - 1) : Fields(a)[j] = Fields(b)[j]

\* Series.dt.floor of a width in minutes that divides the hour
Floor(t, minutes) == [t EXCEPT !.second = 0, !.minute = t.minute - (t.minute % minutes)]

\* pd.to_datetime(cell, errors='coerce')
to_datetime(cell) ==
    IF cell.kind = "str"
    THEN (IF strptime(cell.text, "%Y-%m-%d %H:%M:%S").ok
          THEN Dt(strptime(cell.text, "%Y-%m-%d %H:%M:%S").value)
          ELSE NaT)
    ELSE cell

\* DataAnalyzer.__init__: the critical time window (9 AM - 2 PM) of the target date
DataAnalyzer(target_date, time_filter_enabled) ==
    [target_date |-> target_date,
     time_filter_enabled |-> time_filter_enabled,
     start_time |-> [target_date EXCEPT !.hour = 9, !.minute = 0, !.second = 0],
     end_time |-> [target_date EXCEPT !.hour = 14, !.minute = 0, !.second = 0]]

BaseColumns == {"timestamp", "log_level", "file_path", "line_number", "has_error",
                "is_warning", "is_error_strict", "transaction_id", "error_categories"}

\* pd.DataFrame(): no rows and no columns
EmptyFrame == [columns |-> {}, rows |-> << >>]

Frame(rows) == [columns |-> BaseColumns, rows |-> rows]

\* the mask without an end of the window
InWindowNoEnd(self, row) == Le(self.start_time, row.timestamp.value)

\* the mask with the end of the window left out
InWindowOpenEnd(self, row) ==
    /\ Le(self.start_time, row.timestamp.value)
    /\ Le(row.timestamp.value, self.end_time)
    /\ row.timestamp.value # self.end_time

\* (df['timestamp'] >= self.start_time) & (df['timestamp'] <= self.end_time)
InWindow(self, row) ==
    /\ Le(self.start_time, row.timestamp.value)
    /\ Le(row.timestamp.value, self.end_time)

\* DataAnalyzer.filter_by_timeframe(df): df is the caller's frame after the call (its
\* timestamp column converted in place), result the frame returned
filter_by_timeframe(self, frame) ==
    IF Len(frame.rows) = 0 \/ "timestamp" \notin frame.columns
    THEN [df |-> frame, result |-> frame]
    ELSE LET converted == [i \in 1..Len(frame.rows) |->
                              [frame.rows[i] EXCEPT !.timestamp = to_datetime(@)]]
             NotNull(row) == row.timestamp.kind # "null"          \* dropna
             Masked(row) == InWindow(self, row)                   \* df[mask]
         IN  [df |-> [frame EXCEPT !.rows = converted],
              result |-> [frame EXCEPT !.rows =
                                SelectSeq(SelectSeq(converted, NotNull), Masked)]]

\* the filter applied whatever the configuration says
window_step_always(self, no_time_filter, frame) == filter_by_timeframe(self, frame)

\* LogAnalyzerApp.run_analysis, step 3: filter by timeframe, or skip if disabled
window_step(self, no_time_filter, frame) ==
    IF no_time_filter THEN [df |-> frame, result |-> frame]
    ELSE filter_by_timeframe(self, frame)

\* the day analysed, given with a time of day
TargetDate == DateTime(2023, 10, 1, 16, 30, 15)

\* LogAnalyzerApp.__init__: the analyzer of an application run
AppAnalyzer(no_time_filter) == DataAnalyzer(TargetDate, ~no_time_filter)

WindowCells ==
    {NaT, Str("not a date"), Str("2023-10-01 13:00:00"),
     Dt(DateTime(2023, 10, 1, 8, 59, 59)), Dt(DateTime(2023, 10, 1, 9, 0, 0)),
     Dt(DateTime(2023, 10, 1, 14, 0, 0)), Dt(DateTime(2023, 10, 1, 14, 0, 1)),
     Dt(DateTime(2023, 10, 2, 10, 0, 0))}

Row(line_number, timestamp, has_error, transaction_id, error_categories) ==
    [line_number |-> line_number, file_path |-> LogPath, timestamp |-> timestamp,
     log_level |-> IF has_error THEN Some("ERROR") ELSE Some("INFO"),
     has_error |-> has_error, is_warning |-> FALSE, is_error_strict |-> has_error,
     transaction_id |-> transaction_id,
     error_categories |-> error_categories, time_bin |-> NaT]

MaxRows == 2

\* frames of rows that differ in their timestamp cell
WindowFrames ==
    {Frame([i \in 1..Len(cells) |-> Row(i, cells[i], FALSE, None, << >>)]) :
        cells \in SeqsUpTo(WindowCells, MaxRows)}

MaxPasses == 2

AnalysisVarsUnchanged ==
    UNCHANGED <<clock, first, last, between, ts_call, cls_call, fs, run_a, run_b, io_call, pool, app>>

\* df = self.parser.to_dataframe(parsed_lines): a run of the pipeline has one frame
LoadFrame(frame) ==
    /\ IsNone(df)
    /\ df' = Some([frame |-> frame, passes |-> 0, analysis |-> None, pc |-> "analysis"])
    /\ out' = None
    /\ AnalysisVarsUnchanged

\* step 3 of run_analysis on the frame the pipeline holds; the pipeline goes on
\* with the frame the step gives
WindowStep(no_time_filter) ==
    /\ ~IsNone(df)
    /\ Val(df).passes < MaxPasses
    /\ LET done == window_step(AppAnalyzer(no_time_filter), no_time_filter, Val(df).frame)
       IN  /\ out' = Some([op |-> "window", self |-> AppAnalyzer(no_time_filter),
                           no_time_filter |-> no_time_filter, passes |-> Val(df).passes,
                           arg |-> Val(df).frame, arg_after |-> done.df,
                           result |-> done.result])
           /\ df' = Some([frame |-> done.result,
                          passes |-> IF no_time_filter THEN Val(df).passes
                                     ELSE Val(df).passes + 1,
                          analysis |-> None, pc |-> "analysis"])
    /\ AnalysisVarsUnchanged

NextWindow ==
    \/ \E frame \in WindowFrames : LoadFrame(frame)
    \/ \E no_time_filter \in BOOLEAN : WindowStep(no_time_filter)

\* the window step of the pipeline on frames of any timestamp cells
SpecWindow == InitEmpty /\ [][NextWindow]_vars

\* the latest step was the window step, with the filter enabled or disabled
Windowed(no_time_filter) ==
    /\ ~IsNone(out)
    /\ Val(out).op = "window"
    /\ Val(out).no_time_filter = no_time_filter

WindowStart == DateTime(2023, 10, 1, 9, 0, 0)
WindowEnd == DateTime(2023, 10, 1, 14, 0, 0)

\* the point in time a timestamp cell stands for, if any
TimeOf(cell) ==
    IF cell.kind = "datetime" THEN Some(cell.value)
    ELSE IF cell = Str("2023-10-01 13:00:00") THEN Some(DateTime(2023, 10, 1, 13, 0, 0))
    ELSE None

Within9To14(cell) ==
    /\ ~IsNone(TimeOf(cell))
    /\ Le(WindowStart, Val(TimeOf(cell)))
    /\ Le(Val(TimeOf(cell)), WindowEnd)

LineNumbers(rows) == [i \in 1..Len(rows) |-> rows[i].line_number]

\* C15: filter_by_timeframe keeps exactly the records whose timestamp t satisfies
\* start_time <= t <= end_time, both bounds included, start_time being 09:00:00 and
\* end_time 14:00:00 of the target date; it drops every record without a timestamp
\* or with one that does not parse, and gives no record a default timestamp.
C15_KeepsExactlyWindow ==
    Windowed(FALSE) =>
        LET o == Val(out)
            InArg(row) == Within9To14(row.timestamp)
        IN  /\ o.self.start_time = WindowStart
            /\ o.self.end_time = WindowEnd
            /\ LineNumbers(o.result.rows) = LineNumbers(SelectSeq(o.arg.rows, InArg))
            /\ \A i \in 1..Len(o.result.rows) :
                  \E j \in 1..Len(o.arg.rows) :
                     /\ o.arg.rows[j].line_number = o.result.rows[i].line_number
                     /\ o.result.rows[i].timestamp = Dt(Val(TimeOf(o.arg.rows[j].timestamp)))

\* a record at 14:00:00 is kept and one without a usable timestamp is dropped
C15_Witness ==
    /\ Windowed(FALSE)
    /\ \E i \in 1..Len(Val(out).result.rows) :
          Val(out).result.rows[i].timestamp = Dt(WindowEnd)
    /\ \E j \in 1..Len(Val(out).arg.rows) :
          /\ IsNone(TimeOf(Val(out).arg.rows[j].timestamp))
          /\ \A i \in 1..Len(Val(out).result.rows) :
                Val(out).result.rows[i].line_number # Val(out).arg.rows[j].line_number

\* C16: with the time-window filter disabled the window step passes every record
\* through unchanged, those without a timestamp and those outside the window
\* included: the record set handed to analysis is the parsed record set.
C16_DisabledPassesAll ==
    Windowed(TRUE) =>
        /\ ~Val(out).self.time_filter_enabled
        /\ Val(out).result = Val(out).arg
        /\ Val(df).frame = Val(out).arg

\* a frame with a record without timestamp and a record outside the window
C16_Witness ==
    /\ Windowed(TRUE)
    /\ \E i, j \in 1..Len(Val(out).result.rows) :
          /\ Val(out).result.rows[i].timestamp = NaT
          /\ Val(out).result.rows[j].timestamp.kind = "datetime"
          /\ ~Within9To14(Val(out).result.rows[j].timestamp)

\* C17: the window filter applied to its own output returns the same record set, and
\* every surviving record's timestamp lies within [start_time, end_time].
C17_FilterIdempotent ==
    (Windowed(FALSE) /\ Val(out).passes >= 1) =>
        /\ Val(out).result = Val(out).arg
        /\ \A i \in 1..Len(Val(out).result.rows) :
              Within9To14(Val(out).result.rows[i].timestamp)

\* the filter applied again to a frame that kept records
C17_Witness ==
    /\ Windowed(FALSE)
    /\ Val(out).passes = 1
    /\ Len(Val(out).result.rows) = 2

(***************************************************************************)
(* DataAnalyzer.analyze_error_patterns and DataAnalyzer.identify_peak_periods*)
(***************************************************************************)
\* two digits, as %H, %M and %S print them
Pad2(n) == IF n < 10 THEN "0" \o ToStr(n) ELSE ToStr(n)

\* strftime('%H:%M')
HourMinute(t) == Pad2(t.hour) \o ":" \o Pad2(t.minute)

\* strftime('%H:%M:%S')
HourMinuteSecond(t) == HourMinute(t) \o ":" \o Pad2(t.second)

\* str() of a timestamp cell, as an f-string prints it
CellText(cell) ==
    IF cell.kind = "null" THEN "NaT"
    ELSE ToStr(cell.value.year) \o "-" \o Pad2(cell.value.month) \o "-" \o Pad2(cell.value.day)
            \o " " \o HourMinuteSecond(cell.value)

\* time_bin + timedelta(minutes=window_minutes), within the day
PlusMinutes(t, minutes) ==
    [t EXCEPT !.hour = (t.hour + (t.minute + minutes) \div 60) % 24,
              !.minute = (t.minute + minutes) % 60]

\* Series.dt.floor on a cell: NaT stays NaT
FloorCell(cell, minutes) ==
    IF cell.kind = "datetime" THEN Dt(Floor(cell.value, minutes)) ELSE NaT

\* Series.min() / Series.max() of a timestamp column: NaT is skipped
MinCell(cells) ==
    IF \A i \in 1..Len(cells) : cells[i].kind # "datetime" THEN NaT
    ELSE LET times == {cells[i].value : i \in {j \in 1..Len(cells) : cells[j].kind = "datetime"}}
         IN  Dt(CHOOSE t \in times : \A u \in times : Le(t, u))

MaxCell(cells) ==
    IF \A i \in 1..Len(cells) : cells[i].kind # "datetime" THEN NaT
    ELSE LET times == {cells[i].value : i \in {j \in 1..Len(cells) : cells[j].kind = "datetime"}}
         IN  Dt(CHOOSE t \in times : \A u \in times : Le(u, t))

RECURSIVE Ranked(_, _, _)
\* the members of S by size, largest first, equal sizes by place, least first
Ranked(S, size, place) ==
    IF S = {} THEN << >>
    ELSE LET x == CHOOSE a \in S : \A b \in S \ {a} :
                      \/ size[a] > size[b]
                      \/ size[a] = size[b] /\ place[a] < place[b]
         IN  <<x>> \o Ranked(S \ {x}, size, place)

\* q.head(n), q[:n]
Head_n(q, n) == SubSeq(q, 1, IF Len(q) < n THEN Len(q) ELSE n)

RECURSIVE Flatten(_)
\* [cat for cats in column for cat in cats]
Flatten(lists) == IF Len(lists) = 0 THEN << >> ELSE Head(lists) \o Flatten(Tail(lists))

Column(rows, name) == [i \in 1..Len(rows) |-> rows[i][name]]

\* the position of the first row whose column holds the value
FirstAt(rows, name, v) == CHOOSE i \in 1..Len(rows) :
                              /\ rows[i][name] = v
                              /\ \A j \in 1..(i - 1) : rows[j][name] # v

HowMany(rows, name, v) == Cardinality({i \in 1..Len(rows) : rows[i][name] = v})

\* the orders Series.value_counts can give to values of equal count: that of their
\* first appearance, or the reverse of it
TieOrders == {"first", "last"}

\* the values of a column with their counts, in the order of their first appearance
value_counts_unsorted(rows, name, tie) ==
    LET values == {rows[i][name] : i \in 1..Len(rows)}
        size == [v \in values |-> 0]
        place == [v \in values |-> FirstAt(rows, name, v)]
        order == Ranked(values, size, place)
    IN  [i \in 1..Len(order) |-> [value |-> order[i], count |-> HowMany(rows, name, order[i])]]

\* Series.value_counts(): the values of a column by falling count
value_counts(rows, name, tie) ==
    LET values == {rows[i][name] : i \in 1..Len(rows)}
        size == [v \in values |-> HowMany(rows, name, v)]
        place == [v \in values |-> IF tie = "first" THEN FirstAt(rows, name, v)
                                   ELSE 0 - FirstAt(rows, name, v)]
        order == Ranked(values, size, place)
    IN  [i \in 1..Len(order) |-> [value |-> order[i], count |-> size[order[i]]]]

\* transaction_counts = ....value_counts().head(10)
TopTransactions == 10

\* Identify error bursts (>5 errors in 1 minute)
BurstThreshold == 5

\* every transaction of the counts is a candidate
all_counts(counts) == counts

\* the candidates for a cascading failure
top_counts(counts) == Head_n(counts, TopTransactions)

\* the entry for a transaction with more than one error
cascading_failure(transaction_errors, txn) ==
    LET IsTxn(row) == row.transaction_id = txn.value
        txn_errors == SelectSeq(transaction_errors, IsTxn)
    IN  [type |-> "cascading_failure",
         transaction_id |-> Val(txn.value),
         error_count |-> txn.count,
         time_span |-> CellText(MinCell(Column(txn_errors, "timestamp"))) \o " to "
                          \o CellText(MaxCell(Column(txn_errors, "timestamp"))),
         categories |-> ToSet(Flatten(Column(txn_errors, "error_categories")))]

RECURSIVE cascades(_, _)
\* for txn_id, count in transaction_counts.items(): if count > 1: patterns.append
cascades(transaction_errors, counts) ==
    IF Len(counts) = 0 THEN << >>
    ELSE (IF Head(counts).count > 1
          THEN <<cascading_failure(transaction_errors, Head(counts))>> ELSE << >>)
            \o cascades(transaction_errors, Tail(counts))

RECURSIVE Ascending(_)
\* the datetimes of a set, earliest first: the order of the groups of a groupby
Ascending(times) ==
    IF times = {} THEN << >>
    ELSE LET t == CHOOSE a \in times : \A b \in times : Le(a, b)
         IN  <<t>> \o Ascending(times \ {t})

\* the rows of each bin, by rising bin: groupby(column); rows whose bin is NaT
\* belong to no group
GroupBy(rows, bin) ==
    LET bins == Ascending({bin[i].value : i \in {j \in 1..Len(rows) : bin[j].kind = "datetime"}})
    IN  [k \in 1..Len(bins) |->
            [key |-> bins[k],
             rows |-> LET At(i) == bin[i] = Dt(bins[k])
                          picked == SelectSeq([i \in 1..Len(rows) |-> i], At)
                      IN  [n \in 1..Len(picked) |-> rows[picked[n]]]]]

\* a burst from the threshold on
IsBurstFrom(count) == count >= BurstThreshold

\* minute_counts > 5
IsBurst(count) == count > BurstThreshold

error_burst(minute_rows) ==
    [type |-> "error_burst",
     time |-> minute_rows.key,
     error_count |-> Len(minute_rows.rows),
     description |-> ToStr(Len(minute_rows.rows)) \o " errors in 1 minute starting at "
                        \o HourMinuteSecond(minute_rows.key)]

RECURSIVE bursts(_)
\* for minute, count in minute_counts[minute_counts > 5].items(): patterns.append
bursts(groups) ==
    IF Len(groups) = 0 THEN << >>
    ELSE (IF IsBurst(Len(Head(groups).rows)) THEN <<error_burst(Head(groups))>> ELSE << >>)
            \o bursts(Tail(groups))

HasError(row) == row.has_error = TRUE

HasTransaction(row) == ~IsNone(row.transaction_id)

\* Counter(items) as a dict: for each item the number of times it stands in the list
Counter(items) ==
    [v \in ToSet(items) |-> Cardinality({i \in 1..Len(items) : items[i] = v})]

\* value_counts(...).to_dict()
to_dict(counts) ==
    LET At(v) == CHOOSE i \in 1..Len(counts) : counts[i].value = v
    IN  [v \in {counts[i].value : i \in 1..Len(counts)} |-> counts[At(v)].count]

HasLevel(row) == ~IsNone(row.log_level)

IsTimed(row) == row.timestamp.kind = "datetime"

\* int(df[name].sum()) of a column of booleans
\* the number of rows, whatever the column holds
SumOfAll(rows, name) == Len(rows)

\* int(df[name].sum()) of a boolean column
SumOf(rows, name) == Cardinality({i \in 1..Len(rows) : rows[i][name] = TRUE})

\* what resample('H') does with an index of nothing but NaT: the bins run from the
\* least to the greatest timestamp, and here there is none
NaTIndex == {"no bins", "raises"}

\* the report of an empty frame
empty_report ==
    [total_errors |-> 0, error_categories |-> << >>, patterns |-> << >>,
     total_warnings |-> 0, total_errors_strict |-> 0]

\* the report of a frame with rows; peak_hour, the label of the hour of most errors,
\* is left out
full_report(frame, error_df, transaction_errors, patterns, tie) ==
    [total_errors |-> Len(error_df),
     total_log_entries |-> Len(frame.rows),
     error_rate |-> [num |-> Len(error_df), den |-> Len(frame.rows)],
     error_categories |-> Counter(Flatten(Column(error_df, "error_categories"))),
     error_levels |-> Counter([i \in 1..Len(SelectSeq(error_df, HasLevel)) |->
                                  Val(SelectSeq(error_df, HasLevel)[i].log_level)]),
     top_error_files |->
         to_dict(Head_n(value_counts(error_df, "file_path", tie), TopTransactions)),
     unique_transactions_with_errors |->
         Cardinality(ToSet(Column(transaction_errors, "transaction_id"))),
     patterns |-> patterns,
     total_warnings |-> IF "is_warning" \in frame.columns
                        THEN SumOf(frame.rows, "is_warning") ELSE 0,
     total_errors_strict |-> IF "is_error_strict" \in frame.columns
                             THEN SumOf(frame.rows, "is_error_strict") ELSE Len(error_df)]

\* DataAnalyzer.analyze_error_patterns(df); tie is the order value_counts gives to
\* values of equal count, nat_index what the resampling does when no error row has a
\* timestamp
analyze_error_patterns(frame, tie, nat_index) ==
    IF Len(frame.rows) = 0
    THEN [raised |-> FALSE, value |-> empty_report]
    ELSE LET error_df == SelectSeq(frame.rows, HasError)
             transaction_errors == SelectSeq(error_df, HasTransaction)
             transaction_counts ==
                 top_counts(value_counts(transaction_errors, "transaction_id", tie))
             minute_bin == [i \in 1..Len(error_df) |-> FloorCell(error_df[i].timestamp, 1)]
         IN  IF /\ Len(error_df) > 0
                /\ Len(SelectSeq(error_df, IsTimed)) = 0
                /\ nat_index = "raises"
             THEN [raised |-> TRUE, value |-> empty_report]
             ELSE [raised |-> FALSE,
                   value |-> full_report(frame, error_df, transaction_errors,
                                         cascades(transaction_errors, transaction_counts)
                                             \o bursts(GroupBy(error_df, minute_bin)),
                                         tie)]

\* top_periods = error_counts.nlargest(5, 'error_count')
TopPeriods == 5

\* window_minutes: int = 5
PeakWindow == 5

\* category_counts.most_common(3)
TopCategories == 3

\* Counter(items).most_common(n): by falling count, equal counts in the order of
\* their first appearance
most_common(items, n) ==
    LET values == ToSet(items)
        size == [v \in values |-> Cardinality({i \in 1..Len(items) : items[i] = v})]
        place == [v \in values |-> CHOOSE i \in 1..Len(items) :
                                       items[i] = v /\ \A j \in 1..(i - 1) : items[j] # v]
        order == Head_n(Ranked(values, size, place), n)
    IN  [i \in 1..Len(order) |-> [category |-> order[i], count |-> size[order[i]]]]

\* the n largest groups, of equal ones those met last
nlargest_keep_last(groups, n) ==
    LET size == [i \in 1..Len(groups) |-> Len(groups[i].rows)]
        place == [i \in 1..Len(groups) |-> 0 - i]
        order == Head_n(Ranked(1..Len(groups), size, place), n)
    IN  [i \in 1..Len(order) |-> groups[order[i]]]

\* DataFrame.nlargest(n, 'error_count'): the n groups of the largest counts, largest
\* first, of equal ones those met first (keep='first')
nlargest(groups, n) ==
    LET size == [i \in 1..Len(groups) |-> Len(groups[i].rows)]
        place == [i \in 1..Len(groups) |-> i]
        order == Head_n(Ranked(1..Len(groups), size, place), n)
    IN  [i \in 1..Len(order) |-> groups[order[i]]]

\* one entry of peak_periods
peak_period(bin_rows, window_minutes) ==
    [time_period |-> HourMinute(bin_rows.key) \o " - "
                        \o HourMinute(PlusMinutes(bin_rows.key, window_minutes)),
     start_time |-> bin_rows.key,
     error_count |-> Len(bin_rows.rows),
     top_error_categories |->
         most_common(Flatten(Column(bin_rows.rows, "error_categories")), TopCategories),
     affected_files |-> Cardinality(ToSet(Column(bin_rows.rows, "file_path"))),
     unique_transactions |->
         Cardinality({t \in ToSet(Column(bin_rows.rows, "transaction_id")) :
                         ~IsNone(t) /\ Val(t) # ""})]

\* DataAnalyzer.identify_peak_periods(df, window_minutes): df is the frame after the
\* call, which gains the time_bin column
identify_peak_periods(self, frame, window_minutes) ==
    IF Len(frame.rows) = 0 \/ "timestamp" \notin frame.columns
    THEN [df |-> frame, result |-> << >>]
    ELSE LET binned == [columns |-> frame.columns \cup {"time_bin"},
                        rows |-> [i \in 1..Len(frame.rows) |->
                                    [frame.rows[i] EXCEPT
                                        !.time_bin = FloorCell(frame.rows[i].timestamp,
                                                               window_minutes)]]]
             errors == SelectSeq(binned.rows, HasError)
             error_counts == GroupBy(errors, Column(errors, "time_bin"))
             top_periods == nlargest(error_counts, TopPeriods)
         IN  [df |-> binned,
              result |-> [i \in 1..Len(top_periods) |->
                            peak_period(top_periods[i], window_minutes)]]

\* interval_minutes: int = 15
TimelineInterval == 15

\* a bucket that counts its error rows only
timeline_row_errors(bin_rows) ==
    [time_bin |-> bin_rows.key,
     total_logs |-> SumOf(bin_rows.rows, "has_error"),
     total_errors |-> SumOf(bin_rows.rows, "has_error"),
     level_distribution |-> << >>,
     error_categories |-> << >>,
     category_counts |-> << >>]

\* one row of the timeline: 'has_error': ['count', 'sum'], the levels and the labels
timeline_row(bin_rows) ==
    [time_bin |-> bin_rows.key,
     total_logs |-> Len(bin_rows.rows),
     total_errors |-> SumOf(bin_rows.rows, "has_error"),
     level_distribution |->
         Counter([i \in 1..Len(SelectSeq(bin_rows.rows, HasLevel)) |->
                     Val(SelectSeq(bin_rows.rows, HasLevel)[i].log_level)]),
     error_categories |-> Flatten(Column(bin_rows.rows, "error_categories")),
     category_counts |-> Counter(Flatten(Column(bin_rows.rows, "error_categories")))]

TimelineColumns == {"time_bin", "total_logs", "total_errors", "level_distribution",
                    "error_categories", "category_counts"}

\* DataAnalyzer.generate_timeline(df, interval_minutes): df is the frame after the
\* call, whose time_bin column is set to the buckets of the timeline
generate_timeline(self, frame, interval_minutes) ==
    IF Len(frame.rows) = 0
    THEN [df |-> frame, result |-> EmptyFrame]
    ELSE LET binned == [columns |-> frame.columns \cup {"time_bin"},
                        rows |-> [i \in 1..Len(frame.rows) |->
                                    [frame.rows[i] EXCEPT
                                        !.time_bin = FloorCell(frame.rows[i].timestamp,
                                                               interval_minutes)]]]
             groups == GroupBy(binned.rows, Column(binned.rows, "time_bin"))
         IN  [df |-> binned,
              result |-> [columns |-> TimelineColumns,
                          rows |-> [k \in 1..Len(groups) |-> timeline_row(groups[k])]]]

\* for cat, count in sorted(..., key=lambda x: x[1], reverse=True)[:5]
TopSummaryCategories == 5

IsCascade(pattern) == pattern.type = "cascading_failure"

IsBurstEntry(pattern) == pattern.type = "error_burst"

\* the summary of an empty frame
empty_summary(self) ==
    [timeframe |-> CellText(Dt(self.start_time)) \o " - " \o CellText(Dt(self.end_time)),
     total_logs |-> 0, total_errors |-> 0, error_rate |-> 0,
     summary |-> "No data found in the specified timeframe",
     time_filter_enabled |-> self.time_filter_enabled,
     total_warnings |-> 0, total_errors_strict |-> 0, total_errors_inclusive |-> 0]

\* the summary of a frame with rows; the coverage, the rate in percent and the peak
\* hour are left out
full_summary(self, frame, analysis, top_categories, peak_periods) ==
    [analysis_timeframe |->
         IF self.time_filter_enabled
         THEN ToStr(self.start_time.year) \o "-" \o Pad2(self.start_time.month) \o "-"
                 \o Pad2(self.start_time.day) \o " " \o HourMinute(self.start_time)
                 \o " - " \o HourMinute(self.end_time)
         ELSE "All data (no time filter)",
     total_log_entries |-> Len(frame.rows),
     total_errors |-> analysis.total_errors,
     unique_files_analyzed |-> Cardinality(ToSet(Column(frame.rows, "file_path"))),
     unique_transactions_with_errors |-> analysis.unique_transactions_with_errors,
     top_error_categories |->
         [i \in 1..Len(top_categories) |->
             top_categories[i].category \o ": " \o ToStr(top_categories[i].count)],
     peak_periods_count |-> Len(peak_periods),
     cascading_failures |-> Len(SelectSeq(analysis.patterns, IsCascade)),
     error_bursts |-> Len(SelectSeq(analysis.patterns, IsBurstEntry)),
     time_filter_enabled |-> self.time_filter_enabled,
     total_warnings |-> analysis.total_warnings,
     total_errors_strict |-> analysis.total_errors_strict,
     total_errors_inclusive |-> analysis.total_errors]

\* DataAnalyzer.create_summary_stats(df, analysis): df is the frame after the call,
\* which identify_peak_periods has worked on
create_summary_stats(self, frame, analysis) ==
    IF Len(frame.rows) = 0
    THEN [df |-> frame, result |-> empty_summary(self)]
    ELSE LET error_df == SelectSeq(frame.rows, HasError)
             peaks == identify_peak_periods(self, frame, PeakWindow)
         IN  [df |-> peaks.df,
              result |-> full_summary(self, frame, analysis,
                                      most_common(Flatten(Column(error_df, "error_categories")),
                                                  TopSummaryCategories),
                                      peaks.result)]

\* the rows numbered as the lines of one file
Numbered(rows) == [i \in 1..Len(rows) |-> [rows[i] EXCEPT !.line_number = i]]

OnDay(hour, minute, second) == Dt(DateTime(2023, 10, 1, hour, minute, second))

MaxPerMinute == 7

\* frames of error records crowded into two neighbouring minutes, with or without
\* a record that is no error and an error record without a timestamp
BurstFrames ==
    {Frame(Numbered(
        [i \in 1..a |-> Row(0, OnDay(10, 7, 60 - i), TRUE, None, <<"timeout">>)]
        \o (IF b THEN <<Row(0, OnDay(10, 7, 30), FALSE, None, << >>),
                        Row(0, NaT, TRUE, None, <<"database">>)>>
            ELSE << >>)
        \o [i \in 1..c |-> Row(0, OnDay(10, 8, i - 1), TRUE, None, <<"timeout">>)])) :
        a \in 0..MaxPerMinute, b \in BOOLEAN, c \in {0, BurstThreshold, BurstThreshold + 1}}

MaxTxns == 12

CascadeShapes == {"ones", "twos", "mixed", "rising", "crowd", "surge"}

\* the number of error records of the i-th transaction
ErrorsOf(shape, i) ==
    CASE shape = "ones" -> 1
      [] shape = "twos" -> IF i = 2 THEN 1 ELSE 2
      [] shape = "mixed" -> 1 + (i % 2)
      [] shape = "rising" -> 1 + (i % 3)
      [] shape = "crowd" -> 2
      [] shape = "surge" -> 2 + (i % 2)

TxnName(i) == Some("TXN" \o ToStr(i))

\* the j-th error record of the i-th transaction: later records carry earlier times
TxnRow(shape, i, j) ==
    Row(0,
        IF shape \in {"crowd", "surge"} THEN OnDay(10, 7, i + j)
        ELSE IF i = 3 /\ j = 1 THEN NaT
        ELSE OnDay(9 + (i % 5), (47 * j + i) % 60, i),
        TRUE, TxnName(i),
        CASE (i + j) % 3 = 0 -> << >>
          [] (i + j) % 3 = 1 -> <<"timeout">>
          [] (i + j) % 3 = 2 -> <<"database", "timeout">>)

RECURSIVE TxnRows(_, _)
\* the records of the first n transactions; every other transaction has a record
\* that is no error as well
TxnRows(shape, n) ==
    IF n = 0 THEN << >>
    ELSE TxnRows(shape, n - 1)
            \o [j \in 1..ErrorsOf(shape, n) |-> TxnRow(shape, n, j)]
            \o (IF n % 2 = 1 THEN <<Row(0, OnDay(9, 0, 0), FALSE, TxnName(n), << >>)>>
                ELSE << >>)

\* frames of error records of up to MaxTxns transactions and one of none
CascadeFrames ==
    {Frame(Numbered(TxnRows(shape, n)
                      \o <<Row(0, OnDay(11, 11, 11), TRUE, None, <<"network">>)>>)) :
        shape \in CascadeShapes, n \in 0..MaxTxns}

MaxBuckets == 7

PeakShapes == {"flat", "rising", "falling", "saw"}

\* the number of error records of the k-th of n five-minute buckets
PeakOf(shape, n, k) ==
    CASE shape = "flat" -> 2
      [] shape = "rising" -> 1 + (k \div 2)
      [] shape = "falling" -> 1 + ((n - k) \div 2)
      [] shape = "saw" -> 1 + (k % 2)

RECURSIVE BucketRows(_, _, _)
\* the records of buckets k down to 1 of n: later buckets come first in the frame
BucketRows(shape, n, k) ==
    IF k = 0 THEN << >>
    ELSE [j \in 1..PeakOf(shape, n, k) |->
            Row(0, OnDay(9, PeakWindow * (k - 1) + (j % PeakWindow), j), TRUE,
                IF j % 2 = 0 THEN TxnName(j) ELSE None,
                IF j % 2 = 0 THEN <<"timeout">> ELSE <<"database", "timeout">>)]
            \o (IF k % 2 = 1
                THEN <<Row(0, OnDay(9, PeakWindow * (k - 1), 0), FALSE, None, << >>)>>
                ELSE << >>)
            \o BucketRows(shape, n, k - 1)

\* frames of error records in up to MaxBuckets five-minute buckets
PeakFrames ==
    {Frame(Numbered(BucketRows(shape, n, n)
                      \o (IF n % 2 = 0 THEN <<Row(0, NaT, TRUE, None, <<"network">>)>>
                          ELSE << >>))) :
        shape \in PeakShapes, n \in 0..MaxBuckets}

\* frames without rows: with no columns, as to_dataframe makes them of no records, and
\* with the columns of the records, as the filter leaves them
EmptyFrames == {EmptyFrame, Frame(<< >>)}

AnalysisFrames == BurstFrames \cup CascadeFrames \cup PeakFrames \cup EmptyFrames

\* analysis = self.analyzer.analyze_error_patterns(filtered_df)
AnalyzePatterns(tie, nat_index) ==
    /\ ~IsNone(df)
    /\ Val(df).pc = "analysis"
    /\ LET done == analyze_error_patterns(Val(df).frame, tie, nat_index)
       IN  /\ out' = Some([op |-> "patterns", tie |-> tie, arg |-> Val(df).frame,
                           arg_after |-> Val(df).frame, raised |-> done.raised,
                           result |-> done.value])
           /\ df' = Some([Val(df) EXCEPT
                             !.analysis = IF done.raised THEN None ELSE Some(done.value),
                             !.pc = IF done.raised THEN "failed" ELSE "peak_periods"])
    /\ AnalysisVarsUnchanged

\* peak_periods = self.analyzer.identify_peak_periods(filtered_df)
PeakPeriods ==
    /\ ~IsNone(df)
    /\ Val(df).pc = "peak_periods"
    /\ LET done == identify_peak_periods(AppAnalyzer(TRUE), Val(df).frame, PeakWindow)
       IN  /\ out' = Some([op |-> "peaks", arg |-> Val(df).frame, arg_after |-> done.df,
                           result |-> done.result])
           /\ df' = Some([Val(df) EXCEPT !.frame = done.df, !.pc = "timeline"])
    /\ AnalysisVarsUnchanged

\* timeline_df = self.analyzer.generate_timeline(filtered_df)
Timeline ==
    /\ ~IsNone(df)
    /\ Val(df).pc = "timeline"
    /\ LET done == generate_timeline(AppAnalyzer(TRUE), Val(df).frame, TimelineInterval)
       IN  /\ out' = Some([op |-> "timeline", arg |-> Val(df).frame, arg_after |-> done.df,
                           result |-> done.result])
           /\ df' = Some([Val(df) EXCEPT !.frame = done.df, !.pc = "summary_stats"])
    /\ AnalysisVarsUnchanged

\* summary_stats = self.analyzer.create_summary_stats(filtered_df, analysis)
SummaryStats(no_time_filter) ==
    /\ ~IsNone(df)
    /\ Val(df).pc = "summary_stats"
    /\ LET done == create_summary_stats(AppAnalyzer(no_time_filter), Val(df).frame,
                                        Val(Val(df).analysis))
       IN  /\ out' = Some([op |-> "summary", arg |-> Val(df).frame, arg_after |-> done.df,
                           result |-> done.result])
           /\ df' = Some([Val(df) EXCEPT !.frame = done.df, !.pc = "reports"])
    /\ AnalysisVarsUnchanged

NextAnalysis ==
    \/ \E frame \in AnalysisFrames : LoadFrame(frame)
    \/ \E tie \in TieOrders, nat_index \in NaTIndex : AnalyzePatterns(tie, nat_index)
    \/ PeakPeriods
    \/ Timeline
    \/ \E no_time_filter \in BOOLEAN : SummaryStats(no_time_filter)

\* step 4 of run_analysis on frames as the earlier steps hand them on
SpecAnalysis == InitEmpty /\ [][NextAnalysis]_vars

(***************************************************************************)
(* LogParser.to_dataframe and LogAnalyzerApp.run_analysis                  *)
(***************************************************************************)
\* the cell a timestamp of a record becomes in the frame
Cell(timestamp) == IF IsNone(timestamp) THEN NaT ELSE Dt(Val(timestamp))

\* LogParser.to_dataframe(parsed_lines): the records as rows, the timestamps as
\* datetimes, and a boolean column is_<category> for every category of the records
to_dataframe(parsed_lines) ==
    IF Len(parsed_lines) = 0 THEN EmptyFrame
    ELSE LET all_categories ==
                 UNION {ToSet(parsed_lines[i].error_categories) : i \in 1..Len(parsed_lines)}
             flags == {"is_" \o category : category \in all_categories}
         IN  [columns |-> DOMAIN parsed_lines[1] \cup flags,
              rows |-> [i \in 1..Len(parsed_lines) |->
                          [parsed_lines[i] EXCEPT !.timestamp = to_datetime(Cell(@))]
                            @@ [flag \in flags |->
                                   \E category \in ToSet(parsed_lines[i].error_categories) :
                                       flag = "is_" \o category]
                            @@ [time_bin |-> NaT]]]

\* the files a scan of the logs directory can find, in the order of the walk
RunPaths == <<"a.log", "b.log", "c.log">>

RunFs ==
    [p \in ToSet(RunPaths) |->
        CASE p = "a.log" -> <<WindowLine, ScenarioB \o "\n">>
          [] p = "b.log" -> <<BlankLine>>
          [] p = "c.log" -> <<FatalLine, SyslogOneDigit \o "\n">>]

\* the sublists of the files
FoundLists ==
    {SelectSeq(RunPaths, LAMBDA p : p \in S) : S \in SUBSET ToSet(RunPaths)}

InitRun ==
    /\ clock = BaseYear
    /\ first = None
    /\ last = None
    /\ between = FALSE
    /\ ts_call = None
    /\ cls_call = None
    /\ fs = RunFs
    /\ run_a = None
    /\ run_b = None
    /\ io_call = None
    /\ pool = None
    /\ df = None
    /\ out = None
    /\ app = None

RunVarsUnchanged ==
    UNCHANGED <<clock, first, last, between, ts_call, cls_call, fs, run_a, run_b, io_call, pool, out>>

\* return {'success': False, 'error': ...}
Failure(error) == Some([success |-> FALSE, error |-> error])

\* except Exception as e: return {'success': False, 'error': str(e)}
Caught == Failure("str(e)")

\* the step is over and the call is at next
Goes(step, next) == [Val(app) EXCEPT !.pc = next, !.steps = Append(@, step)]

\* the step makes the call return the outcome
Return(step, outcome) == app' = Some([Goes(step, "returned") EXCEPT !.outcome = outcome])

\* the filter is on and no row is left
NoWindowDataNever(no_time_filter, filtered_df) == FALSE

\* if filtered_df.empty, in the branch of the filter
NoWindowData(no_time_filter, filtered_df) ==
    ~no_time_filter /\ Len(filtered_df.rows) = 0

\* app = LogAnalyzerApp(...); app.run_analysis(max_workers)
RunStart(warnings_as_errors, no_time_filter, max_workers) ==
    /\ IsNone(app)
    /\ app' = Some([parser |-> [treat_warnings_as_errors |-> warnings_as_errors],
                    analyzer |-> AppAnalyzer(no_time_filter),
                    no_time_filter |-> no_time_filter,
                    max_workers |-> max_workers,
                    pc |-> "scan", steps |-> << >>, log_files |-> << >>,
                    found |-> None, parsed |-> None, filtered |-> None,
                    entered |-> None, analysis |-> None, peak_periods |-> None,
                    timeline_df |-> None, summary_stats |-> None, reports |-> << >>,
                    outcome |-> None])
    /\ UNCHANGED df
    /\ RunVarsUnchanged

\* Step 1: scan for log files; found is what the directory holds, raises an error of
\* the walk that scan_directory does not catch
RunScan(found, raises) ==
    /\ ~IsNone(app)
    /\ Val(app).pc = "scan"
    /\ IF raises THEN Return("scan", Caught)
       ELSE IF Len(found) = 0
       THEN app' = Some([Goes("scan", "returned") EXCEPT
                           !.found = Some(0),
                           !.outcome = Failure("No log files found")])
       ELSE app' = Some([Goes("scan", "parse") EXCEPT
                           !.found = Some(Len(found)), !.log_files = found])
    /\ UNCHANGED df
    /\ RunVarsUnchanged

RECURSIVE ParsedOf(_, _, _, _)
\* the records of the files in the order in which their tasks complete
ParsedOf(self, files, file_paths, current_year) ==
    IF Len(file_paths) = 0 THEN << >>
    ELSE parse_file(self, files, Head(file_paths), None, current_year)
            \o ParsedOf(self, files, Tail(file_paths), current_year)

Reverse(q) == [i \in 1..Len(q) |-> q[Len(q) + 1 - i]]

\* Step 2: the files no larger than the limit (kept) are parsed and the records made
\* a frame; ThreadPoolExecutor raises ValueError unless max_workers is positive
RunParse(kept, completed) ==
    /\ ~IsNone(app)
    /\ Val(app).pc = "parse"
    /\ ToSet(kept) \subseteq ToSet(Val(app).log_files)
    /\ completed \in {kept, Reverse(kept)}
    /\ IF Val(app).max_workers <= 0 THEN Return("parse", Caught) /\ UNCHANGED df
       ELSE LET parsed_lines == ParsedOf(Val(app).parser, fs, completed, clock)
            IN  IF Len(parsed_lines) = 0
                THEN /\ app' = Some([Goes("parse", "returned") EXCEPT
                                       !.parsed = Some(0),
                                       !.outcome = Failure("No parseable log entries found")])
                     /\ UNCHANGED df
                ELSE /\ app' = Some([Goes("parse", "filter") EXCEPT
                                       !.parsed = Some(Len(parsed_lines))])
                     /\ df' = Some([frame |-> to_dataframe(parsed_lines), passes |-> 0,
                                    analysis |-> None, pc |-> "filter"])
    /\ RunVarsUnchanged

\* Step 3: filter by timeframe, or skip if disabled; the analysis is given the frame
\* the step leaves
RunFilter ==
    /\ ~IsNone(app)
    /\ Val(app).pc = "filter"
    /\ LET done == window_step(Val(app).analyzer, Val(app).no_time_filter, Val(df).frame)
       IN  IF NoWindowData(Val(app).no_time_filter, done.result)
           THEN /\ app' = Some([Goes("filter", "returned") EXCEPT
                                  !.filtered = Some(0),
                                  !.outcome = Failure("No data in target timeframe")])
                /\ UNCHANGED df
           ELSE /\ app' = Some([Goes("filter", "analysis") EXCEPT
                                  !.filtered = Some(Len(done.result.rows)),
                                  !.entered = Some(done.result)])
                /\ df' = Some([Val(df) EXCEPT !.frame = done.result, !.pc = "analysis"])
    /\ RunVarsUnchanged

\* Step 4: the four calls of the analyzer on filtered_df, one after the other
RunAnalysis(tie, nat_index) ==
    /\ ~IsNone(app)
    /\ Val(app).pc = "analysis"
    /\ LET analysis == analyze_error_patterns(Val(df).frame, tie, nat_index)
           peak_periods == identify_peak_periods(Val(app).analyzer, Val(df).frame, PeakWindow)
           timeline_df == generate_timeline(Val(app).analyzer, peak_periods.df,
                                            TimelineInterval)
           summary_stats == create_summary_stats(Val(app).analyzer, timeline_df.df,
                                                 analysis.value)
       IN  IF analysis.raised THEN Return("analysis", Caught) /\ UNCHANGED df
           ELSE /\ app' = Some([Goes("analysis", "reports") EXCEPT
                                  !.analysis = Some(analysis.value),
                                  !.peak_periods = Some(peak_periods.result),
                                  !.timeline_df = Some(timeline_df.result),
                                  !.summary_stats = Some(summary_stats.result)])
                /\ df' = Some([Val(df) EXCEPT !.frame = summary_stats.df,
                                              !.analysis = Some(analysis.value),
                                              !.pc = "reports"])
    /\ RunVarsUnchanged

\* the reports in the order in which step 5 writes them
ReportKinds == <<"csv", "summary", "visualizations", "dashboard">>

\* Step 5 and the return: the reports are written one after the other; failed is the
\* number of the report whose writing raises, 0 when none does.  The CSV is the
\* frame as it is after the analysis.
RunReports(failed) ==
    /\ ~IsNone(app)
    /\ Val(app).pc = "reports"
    /\ LET written == [i \in 1..(IF failed = 0 THEN Len(ReportKinds) ELSE failed - 1) |->
                          [kind |-> ReportKinds[i],
                           content |-> IF ReportKinds[i] = "csv" THEN Some(Val(df).frame)
                                       ELSE None]]
       IN  app' = Some([Goes("reports", "returned") EXCEPT
                          !.reports = written,
                          !.outcome = IF failed = 0 THEN Some([success |-> TRUE])
                                      ELSE Caught])
    /\ UNCHANGED df
    /\ RunVarsUnchanged

\* the numbers of workers a caller passes
WorkerCounts == {0, 4}

NextRun ==
    \/ \E warnings_as_errors, no_time_filter \in BOOLEAN, max_workers \in WorkerCounts :
          RunStart(warnings_as_errors, no_time_filter, max_workers)
    \/ \E found \in FoundLists, raises \in BOOLEAN : RunScan(found, raises)
    \/ \E kept \in FoundLists : \E completed \in {kept, Reverse(kept)} :
          RunParse(kept, completed)
    \/ RunFilter
    \/ \E tie \in TieOrders, nat_index \in NaTIndex : RunAnalysis(tie, nat_index)
    \/ \E failed \in 0..Len(ReportKinds) : RunReports(failed)

\* one call of run_analysis from the scan to the return
SpecRun == InitRun /\ [][NextRun]_vars

(***************************************************************************)
(* Claims about the error patterns and the peak periods                    *)
(***************************************************************************)
\* analyze_error_patterns has just returned
Patterns == ~IsNone(out) /\ Val(out).op = "patterns" /\ ~Val(out).raised

\* the start of the minute a datetime lies in
MinuteOf(t) == [t EXCEPT !.second = 0]

\* the rows that are errors and whose timestamp lies in the minute
ErrorsInMinute(rows, m) ==
    {i \in 1..Len(rows) : /\ rows[i].has_error
                          /\ rows[i].timestamp.kind = "datetime"
                          /\ MinuteOf(rows[i].timestamp.value) = m}

\* the minutes in which the rows of a frame lie
MinutesOf(rows) ==
    {MinuteOf(rows[i].timestamp.value) :
        i \in {j \in 1..Len(rows) : rows[j].timestamp.kind = "datetime"}}

\* the entries of the patterns that report a burst in the minute
BurstsAt(patterns, m) ==
    {k \in 1..Len(patterns) : patterns[k].type = "error_burst" /\ patterns[k].time = m}

\* C18: analyze_error_patterns reports an error_burst for a one-minute bucket exactly
\* when more than 5 records with has_error lie in it: a bucket of 5 or fewer is never
\* reported, a bucket of more is reported exactly once, with the number of its error
\* records as error_count and the start of the bucket as time; records that are no
\* errors never count, and no burst is reported for a minute of no record.
C18_BurstExactlyAboveFive ==
    Patterns =>
        LET rows == Val(out).arg.rows
            patterns == Val(out).result.patterns
        IN  /\ \A m \in MinutesOf(rows) :
                  /\ Cardinality(BurstsAt(patterns, m))
                        = IF Cardinality(ErrorsInMinute(rows, m)) > 5 THEN 1 ELSE 0
                  /\ \A k \in BurstsAt(patterns, m) :
                        patterns[k].error_count = Cardinality(ErrorsInMinute(rows, m))
            /\ \A k \in 1..Len(patterns) :
                  patterns[k].type = "error_burst" => patterns[k].time \in MinutesOf(rows)

\* a frame with a minute of exactly 6 error records, reported with count 6, and a
\* minute of exactly 5 error records and one that is no error, not reported
C18_Witness ==
    /\ Patterns
    /\ LET rows == Val(out).arg.rows
           patterns == Val(out).result.patterns
       IN  /\ \E m \in MinutesOf(rows) :
                 /\ Cardinality(ErrorsInMinute(rows, m)) = 6
                 /\ \E k \in BurstsAt(patterns, m) : patterns[k].error_count = 6
           /\ \E m \in MinutesOf(rows) :
                 /\ Cardinality(ErrorsInMinute(rows, m)) = 5
                 /\ \E i \in 1..Len(rows) :
                       /\ ~rows[i].has_error
                       /\ rows[i].timestamp.kind = "datetime"
                       /\ MinuteOf(rows[i].timestamp.value) = m
                 /\ BurstsAt(patterns, m) = {}

\* the rows that are errors of the transaction
TxnErrors(rows, t) ==
    {i \in 1..Len(rows) : rows[i].has_error /\ rows[i].transaction_id = Some(t)}

\* the transactions that have an error row
TxnIdsOf(rows) ==
    {Val(rows[i].transaction_id) :
        i \in {j \in 1..Len(rows) : rows[j].has_error /\ ~IsNone(rows[j].transaction_id)}}

\* the entries of the patterns that report a cascading failure of the transaction
CascadesOf(patterns, t) ==
    {k \in 1..Len(patterns) :
        patterns[k].type = "cascading_failure" /\ patterns[k].transaction_id = t}

\* "earliest to latest" of the timestamps of the rows, as the entry prints it
SpanOf(rows, picked) ==
    LET times == {rows[i].timestamp.value :
                     i \in {j \in picked : rows[j].timestamp.kind = "datetime"}}
    IN  IF times = {} THEN "NaT to NaT"
        ELSE CellText(Dt(CHOOSE t \in times : \A u \in times : Le(t, u))) \o " to "
                \o CellText(Dt(CHOOSE t \in times : \A u \in times : Le(u, t)))

\* the entry tells the error rows of the transaction: their number, the span of
\* their timestamps and the union of their category labels
TellsOf(rows, entry, t) ==
    /\ entry.error_count = Cardinality(TxnErrors(rows, t))
    /\ entry.time_span = SpanOf(rows, TxnErrors(rows, t))
    /\ entry.categories = UNION {ToSet(rows[i].error_categories) : i \in TxnErrors(rows, t)}

\* C19 as stated: a transaction with exactly one error record is never reported as a
\* cascading_failure, and every transaction with two or more error records is
\* reported by exactly one entry that tells its error count, time span and categories.
C19_EveryCascadeReported ==
    Patterns =>
        LET rows == Val(out).arg.rows
            patterns == Val(out).result.patterns
        IN  \A t \in TxnIdsOf(rows) :
                /\ Cardinality(CascadesOf(patterns, t))
                      = IF Cardinality(TxnErrors(rows, t)) >= 2 THEN 1 ELSE 0
                /\ \A k \in CascadesOf(patterns, t) : TellsOf(rows, patterns[k], t)

\* C19, amended: cascading failures are looked for among the 10 transactions with the
\* most error records only. A transaction with exactly one error record is never
\* reported; one with two or more is reported by exactly one entry when fewer than 10
\* other transactions have as many error records or more, and is not reported when
\* 10 or more others have more; no transaction is reported twice, at most 10 are
\* reported, and every entry tells the error count, the time span and the categories
\* of the error records of its transaction.
C19_TopTenCascades ==
    Patterns =>
        LET rows == Val(out).arg.rows
            patterns == Val(out).result.patterns
            n(t) == Cardinality(TxnErrors(rows, t))
        IN  /\ \A t \in TxnIdsOf(rows) :
                  /\ Cardinality(CascadesOf(patterns, t)) <= 1
                  /\ n(t) = 1 => CascadesOf(patterns, t) = {}
                  /\ (n(t) >= 2
                        /\ Cardinality({u \in TxnIdsOf(rows) \ {t} : n(u) >= n(t)}) < 10)
                        => Cardinality(CascadesOf(patterns, t)) = 1
                  /\ Cardinality({u \in TxnIdsOf(rows) : n(u) > n(t)}) >= 10
                        => CascadesOf(patterns, t) = {}
                  /\ \A k \in CascadesOf(patterns, t) : TellsOf(rows, patterns[k], t)
            /\ Cardinality({k \in 1..Len(patterns) :
                               patterns[k].type = "cascading_failure"}) <= 10
            /\ \A k \in 1..Len(patterns) :
                  patterns[k].type = "cascading_failure"
                      => patterns[k].transaction_id \in TxnIdsOf(rows)

\* a frame of more than 10 transactions: one with a single error record, not reported,
\* one with two error records at different times and of different categories, reported,
\* and one with two error records that is not reported
C19_Witness ==
    /\ Patterns
    /\ LET rows == Val(out).arg.rows
           patterns == Val(out).result.patterns
       IN  /\ Cardinality(TxnIdsOf(rows)) > 10
           /\ \E t \in TxnIdsOf(rows) :
                 Cardinality(TxnErrors(rows, t)) = 1 /\ CascadesOf(patterns, t) = {}
           /\ \E t \in TxnIdsOf(rows) :
                 /\ Cardinality(TxnErrors(rows, t)) = 2
                 /\ \E k \in CascadesOf(patterns, t) :
                       /\ patterns[k].error_count = 2
                       /\ Cardinality(patterns[k].categories) >= 2
                       /\ \E a, b \in TxnErrors(rows, t) :
                             /\ a < b
                             /\ rows[a].timestamp.kind = "datetime"
                             /\ rows[b].timestamp.kind = "datetime"
                             /\ rows[a].timestamp # rows[b].timestamp
                             /\ patterns[k].time_span = CellText(rows[b].timestamp)
                                   \o " to " \o CellText(rows[a].timestamp)
           /\ \E t \in TxnIdsOf(rows) :
                 Cardinality(TxnErrors(rows, t)) = 2 /\ CascadesOf(patterns, t) = {}

\* identify_peak_periods has just returned
Peaks == ~IsNone(out) /\ Val(out).op = "peaks"

\* the start of the five-minute bucket a datetime lies in
BucketOf(t) == [t EXCEPT !.minute = 5 * (t.minute \div 5), !.second = 0]

\* the rows that are errors and whose timestamp lies in the bucket
ErrorsInBucket(rows, b) ==
    {i \in 1..Len(rows) : /\ rows[i].has_error
                          /\ rows[i].timestamp.kind = "datetime"
                          /\ BucketOf(rows[i].timestamp.value) = b}

\* the buckets in which error rows lie
BucketsOf(rows) ==
    {BucketOf(rows[i].timestamp.value) :
        i \in {j \in 1..Len(rows) : rows[j].has_error /\ rows[j].timestamp.kind = "datetime"}}

Earlier(a, b) == Le(a, b) /\ a # b

\* C20: identify_peak_periods counts only the records with has_error, by the
\* five-minute bucket of their timestamp, and returns the buckets of the largest
\* counts, 5 at most (all of them when there are no more than 5), each once and with
\* its count, by falling count and, on equal counts, the earlier bucket first; a bucket
\* left out has a count no greater than that of any returned one and, on an equal
\* count, a later start.
C20_TopFiveBuckets ==
    Peaks =>
        LET rows == Val(out).arg.rows
            result == Val(out).result
            returned == {result[i].start_time : i \in 1..Len(result)}
        IN  /\ Len(result) <= 5
            /\ Len(result) = IF Cardinality(BucketsOf(rows)) < 5
                             THEN Cardinality(BucketsOf(rows)) ELSE 5
            /\ returned \subseteq BucketsOf(rows)
            /\ \A i \in 1..Len(result) :
                  result[i].error_count
                      = Cardinality(ErrorsInBucket(rows, result[i].start_time))
            /\ \A i, j \in 1..Len(result) :
                  i < j => \/ result[i].error_count > result[j].error_count
                           \/ /\ result[i].error_count = result[j].error_count
                              /\ Earlier(result[i].start_time, result[j].start_time)
            /\ \A b \in BucketsOf(rows) \ returned : \A i \in 1..Len(result) :
                  LET count == Cardinality(ErrorsInBucket(rows, b))
                  IN  /\ count <= result[i].error_count
                      /\ count = result[i].error_count => Earlier(result[i].start_time, b)

\* a frame with error rows in more than 5 buckets: 5 are returned, two of them of the
\* same count, one left out has the count of the last returned, and a returned
\* bucket holds a row that is no error
C20_Witness ==
    /\ Peaks
    /\ LET rows == Val(out).arg.rows
           result == Val(out).result
       IN  /\ Cardinality(BucketsOf(rows)) > 5
           /\ Len(result) = 5
           /\ \E i, j \in 1..Len(result) :
                 i < j /\ result[i].error_count = result[j].error_count
           /\ \E b \in BucketsOf(rows) \ {result[i].start_time : i \in 1..Len(result)} :
                 Cardinality(ErrorsInBucket(rows, b)) = result[5].error_count
           /\ \E k \in 1..Len(rows), i \in 1..Len(result) :
                 /\ ~rows[k].has_error
                 /\ rows[k].timestamp.kind = "datetime"
                 /\ BucketOf(rows[k].timestamp.value) = result[i].start_time

(***************************************************************************)
(* Claims about the merged collection of parse_files_parallel              *)
(***************************************************************************)
\* the futures the loop over as_completed has yielded so far
CollectedOf(p) == {i \in 1..Len(p.futures) : p.futures[i].collected}

\* the orders in which the futures of a set can have been yielded
OrdersOf(S) ==
    {q \in [1..Cardinality(S) -> S] : \A i, j \in 1..Cardinality(S) : q[i] = q[j] => i = j}

RECURSIVE SlicesIn(_, _)
\* the results of the futures, one after the other in the order given
SlicesIn(futures, order) ==
    IF Len(order) = 0 THEN << >>
    ELSE futures[Head(order)].result \o SlicesIn(futures, Tail(order))

\* C24: at every moment of a call of parse_files_parallel, under every interleaving of
\* the completions, the merged collection is made of the whole results of the tasks
\* collected so far, each exactly once, one after the other with nothing in between;
\* the records of a task stand in the line order of its file, and when the files of
\* the call are distinct the records of any one file form one such slice.
C24_SlicesWholeAndOrdered ==
    ~IsNone(pool) =>
        LET p == Val(pool)
            all == p.all_parsed_lines
        IN  /\ \E order \in OrdersOf(CollectedOf(p)) : all = SlicesIn(p.futures, order)
            /\ \A i \in 1..Len(p.futures) : \A a, b \in 1..Len(p.futures[i].result) :
                  a < b => p.futures[i].result[a].line_number
                              < p.futures[i].result[b].line_number
            /\ (\A i, j \in 1..Len(p.file_paths) : p.file_paths[i] = p.file_paths[j] => i = j)
                  => \A a, b \in 1..Len(all) :
                        (a < b /\ all[a].file_path = all[b].file_path)
                            => /\ all[a].line_number < all[b].line_number
                               /\ \A c \in a..b : all[c].file_path = all[a].file_path

\* a call on two files has returned: the task submitted second, with two records, was
\* collected first, and the one record of the other file stands after them
C24_Witness ==
    /\ Returned
    /\ Len(Val(pool).futures) = 2
    /\ Val(pool).futures[1].file_path # Val(pool).futures[2].file_path
    /\ Len(Val(pool).futures[2].result) = 2
    /\ Len(Val(pool).futures[1].result) = 1
    /\ Len(Val(pool).all_parsed_lines) = 3
    /\ Val(pool).all_parsed_lines[3] = Val(pool).futures[1].result[1]

(***************************************************************************)
(* Claims about the analysis as a whole                                    *)
(***************************************************************************)
\* an operation of the analyzer has just returned from a frame without rows
OnEmpty == ~IsNone(out) /\ Len(Val(out).arg.rows) = 0

\* C21: on an empty record set no operation of the analyzer raises and every aggregate
\* is zero or empty: identify_peak_periods returns an empty list, generate_timeline an
\* empty timeline, and analyze_error_patterns a report with total_errors 0, an error
\* rate of 0, no category counts and no patterns.
C21_EmptyDegrades ==
    OnEmpty =>
        /\ Val(out).op = "peaks" => Val(out).result = << >>
        /\ Val(out).op = "timeline" => Val(out).result.rows = << >>
        /\ Val(out).op = "patterns" =>
              /\ ~Val(out).raised
              /\ Val(out).result.total_errors = 0
              /\ DOMAIN Val(out).result.error_categories = {}
              /\ Val(out).result.patterns = << >>
              /\ "error_rate" \in DOMAIN Val(out).result
              /\ Val(out).result.error_rate = 0

\* the steps of run_analysis in their order
StepOrder == <<"scan", "parse", "filter", "analysis", "reports">>

\* run_analysis has returned
RunReturned == ~IsNone(app) /\ Val(app).pc = "returned"

\* C22: run_analysis returns an outcome whatever happens and takes its steps in the
\* order scan, parse, filter, analysis, reports.  When no file is found, when no
\* record is parsed, or when the filter is on and no record lies in the window, the
\* outcome has success = false and the message of that condition, and no later step
\* has run: nothing was analysed and no report was written.  success = true is
\* returned only after all five steps, with the four reports written.
C22_NoDataOutcomes ==
    ~IsNone(app) =>
        LET run == Val(app) IN
        /\ run.steps = SubSeq(StepOrder, 1, Len(run.steps))
        /\ (run.pc = "returned") = ~IsNone(run.outcome)
        /\ RunReturned /\ run.found = Some(0) =>
              /\ run.outcome = Failure("No log files found")
              /\ run.steps = <<"scan">>
              /\ IsNone(df) /\ IsNone(run.analysis) /\ run.reports = << >>
        /\ RunReturned /\ run.parsed = Some(0) =>
              /\ run.outcome = Failure("No parseable log entries found")
              /\ run.steps = <<"scan", "parse">>
              /\ IsNone(df) /\ IsNone(run.analysis) /\ run.reports = << >>
        /\ (RunReturned /\ ~run.no_time_filter /\ run.filtered = Some(0)) =>
              /\ run.outcome = Failure("No data in target timeframe")
              /\ run.steps = <<"scan", "parse", "filter">>
              /\ IsNone(run.analysis) /\ run.reports = << >>
        /\ (RunReturned /\ Val(run.outcome).success) =>
              /\ run.steps = StepOrder
              /\ ~IsNone(run.analysis)
              /\ Len(run.reports) = Len(ReportKinds)
              /\ run.found # Some(0) /\ run.parsed # Some(0)
              /\ ~run.no_time_filter => run.filtered # Some(0)

\* a run with the filter on whose files gave records, none of them in the window: it
\* has returned the outcome of no data in the timeframe
C22_Witness ==
    /\ RunReturned
    /\ Val(app).filtered = Some(0)
    /\ ~Val(app).no_time_filter
    /\ Val(app).outcome = Failure("No data in target timeframe")
    /\ ~IsNone(df)
    /\ Len(Val(df).frame.rows) > 0

\* C23: records are read-only during the analysis: each operation of the analyzer
\* leaves the frame passed to it as it was, adding, removing and changing no field of
\* any record.
C23_RecordsReadOnly ==
    ~IsNone(out) => Val(out).arg_after = Val(out).arg

\* generate_timeline has just returned
Timelined == ~IsNone(out) /\ Val(out).op = "timeline"

\* the start of the quarter of an hour a datetime lies in
QuarterOf(t) == [t EXCEPT !.minute = 15 * (t.minute \div 15), !.second = 0]

\* the rows with a timestamp in the quarter
RowsInQuarter(rows, b) ==
    {i \in 1..Len(rows) : /\ rows[i].timestamp.kind = "datetime"
                          /\ QuarterOf(rows[i].timestamp.value) = b}

RECURSIVE SumColumn(_, _)
SumColumn(rows, name) ==
    IF Len(rows) = 0 THEN 0 ELSE Head(rows)[name] + SumColumn(Tail(rows), name)

\* C25: generate_timeline groups all the records with a timestamp, errors or not, by
\* the quarter of an hour of the timestamp: the timeline has one row for each quarter
\* that holds a record, with total_logs the number of records in it and total_errors
\* the number of those with has_error; so total_errors <= total_logs in every row,
\* the total_logs add up to the number of records with a timestamp and the
\* total_errors to the number of error records with a timestamp.
C25_TimelineCountsAll ==
    (Timelined /\ Len(Val(out).arg.rows) > 0) =>
        LET rows == Val(out).arg.rows
            timeline == Val(out).result.rows
            timed == {i \in 1..Len(rows) : rows[i].timestamp.kind = "datetime"}
        IN  /\ {timeline[k].time_bin : k \in 1..Len(timeline)}
                  = {QuarterOf(rows[i].timestamp.value) : i \in timed}
            /\ \A k, l \in 1..Len(timeline) :
                  timeline[k].time_bin = timeline[l].time_bin => k = l
            /\ \A k \in 1..Len(timeline) :
                  /\ timeline[k].total_logs
                        = Cardinality(RowsInQuarter(rows, timeline[k].time_bin))
                  /\ timeline[k].total_errors
                        = Cardinality({i \in RowsInQuarter(rows, timeline[k].time_bin) :
                                          rows[i].has_error})
                  /\ timeline[k].total_errors <= timeline[k].total_logs
            /\ SumColumn(timeline, "total_logs") = Cardinality(timed)
            /\ SumColumn(timeline, "total_errors")
                  = Cardinality({i \in timed : rows[i].has_error})

\* a timeline of more than one quarter, one of them with fewer errors than records,
\* of a frame that has a record without a timestamp
C25_Witness ==
    /\ Timelined
    /\ Len(Val(out).result.rows) > 1
    /\ \E k \in 1..Len(Val(out).result.rows) :
          /\ Val(out).result.rows[k].total_errors > 0
          /\ Val(out).result.rows[k].total_errors < Val(out).result.rows[k].total_logs
    /\ \E i \in 1..Len(Val(out).arg.rows) : Val(out).arg.rows[i].timestamp.kind = "null"

(***************************************************************************)
(* Claims about the residual line, the syslog timestamp and the            *)
(* transaction ID                                                          *)
(***************************************************************************)
\* the matcher that gave the timestamp of a call of detect_timestamp
Winner(c) == CHOOSE k \in Matchers :
                 /\ Works(k, c.line, c.year)
                 /\ \A j \in Matchers : Works(j, c.line, c.year) => k <= j

\* C26: when a matcher succeeds, the residual detect_timestamp returns is the line
\* with the matched timestamp text taken out and nothing else: the text before the
\* timestamp and the text after it are both still there (trimmed at the ends).
C26_ResidualKeepsRest ==
    (~IsNone(ts_call) /\ ~IsNone(Val(ts_call).result.timestamp)) =>
        LET c == Val(ts_call)
            m == search(timestamp_patterns[Winner(c)].re, c.line)
        IN  c.result.remaining = strip(Prefix(c.line, m.start - 1) \o Suffix(c.line, m.end - 1))

\* the datetime written in a text "Mon D HH:MM:SS" or "Mon DD HH:MM:SS", in the year
WrittenIn(text, year) ==
    DateTime(year,
             CHOOSE i \in 1..12 : MonthAbbr[i] = MapText(SubSeq(text, 1, 3), "lower"),
             ToInt(SubSeq(text, 5, Len(text) - 9)),
             ToInt(SubSeq(text, Len(text) - 7, Len(text) - 6)),
             ToInt(SubSeq(text, Len(text) - 4, Len(text) - 3)),
             ToInt(SubSeq(text, Len(text) - 1, Len(text))))

\* C27: when the matcher that gives the timestamp is the syslog-style one, for a day
\* of one digit as of two, the timestamp has the calendar year of the call and the
\* month, day, hour, minute and second written in the line: cutting the text to 19
\* characters takes no digit of the time away.
C27_SyslogFieldsAsWritten ==
    (/\ ~IsNone(ts_call)
     /\ ~IsNone(Val(ts_call).result.timestamp)
     /\ timestamp_patterns[Winner(Val(ts_call))].fmt = SyslogFormat) =>
        LET c == Val(ts_call)
            m == search(timestamp_patterns[Winner(c)].re, c.line)
        IN  Val(c.result.timestamp) = WrittenIn(group(c.line, m, 1), c.year)

\* the places of the patterns that hold an entry of the type
EntriesOf(patterns, type) == {k \in 1..Len(patterns) : patterns[k].type = type}

\* C28: every cascading_failure entry of analyze_error_patterns is of a transaction
\* that fewer than 10 transactions exceed in error records, so one of the 10 with the
\* most; at most 10 cascades are reported, their error_count never rises along the
\* list, and they all stand before every error_burst entry.
C28_CascadesRankedBeforeBursts ==
    Patterns =>
        LET rows == Val(out).arg.rows
            patterns == Val(out).result.patterns
            n(t) == Cardinality(TxnErrors(rows, t))
            found == EntriesOf(patterns, "cascading_failure")
        IN  /\ \A k \in found :
                  /\ patterns[k].transaction_id \in TxnIdsOf(rows)
                  /\ patterns[k].error_count = n(patterns[k].transaction_id)
                  /\ Cardinality({u \in TxnIdsOf(rows) :
                                     n(u) > n(patterns[k].transaction_id)}) < TopTransactions
            /\ Cardinality(found) <= TopTransactions
            /\ \A j, k \in found : j < k => patterns[j].error_count >= patterns[k].error_count
            /\ \A j \in found : \A k \in EntriesOf(patterns, "error_burst") : j < k

\* more than 10 transactions with errors in one minute: 10 cascades of falling and
\* different error counts, a transaction with 2 errors left out, and a burst after them
C28_Witness ==
    /\ Patterns
    /\ LET rows == Val(out).arg.rows
           patterns == Val(out).result.patterns
           found == EntriesOf(patterns, "cascading_failure")
       IN  /\ Cardinality(TxnIdsOf(rows)) > TopTransactions
           /\ Cardinality(found) = TopTransactions
           /\ \E j, k \in found : j < k /\ patterns[j].error_count > patterns[k].error_count
           /\ \E t \in TxnIdsOf(rows) :
                 Cardinality(TxnErrors(rows, t)) >= 2 /\ CascadesOf(patterns, t) = {}
           /\ EntriesOf(patterns, "error_burst") # {}

\* the keys of the transaction ID patterns, in the order of the list
KeyOrder == <<"transaction", "txn", "order", "ref">>

\* what the key pattern finds in the text
KeyFound(k, text) == search(KeyIdPattern(KeyOrder[k]), text)

\* the transaction ID of a text: the capture of the first key, in the order of the
\* list, whose pattern matches somewhere in the text
FirstKeyIn(text) ==
    LET hits == {k \in 1..Len(KeyOrder) : KeyFound(k, text).ok}
    IN  IF hits = {} THEN None
        ELSE LET k == CHOOSE a \in hits : \A b \in hits : a <= b
             IN  Some(group(text, KeyFound(k, text), 1))

FirstKeyOf_table == Tabulate([t \in SampleTexts |-> FirstKeyIn(t)])

FirstKeyOf(text) == Lookup(FirstKeyOf_table, text, FirstKeyIn(text))

\* C29: the transaction ID of a record is the value captured by the first of the key
\* patterns transaction id, txn id, order id, ref id, in that order, that matches
\* anywhere in the original line: the order of the list decides between two keys of
\* one line, not their places in the text; when none matches the ID is absent.
C29_FirstListedKeyWins ==
    \A call \in {first, last} :
        (~IsNone(call) /\ ~IsNone(Val(call).result)) =>
            LET record == Val(Val(call).result)
            IN  record.transaction_id = FirstKeyOf(record.original_line)

\* a line that holds "order id" before "txn_id" gave the value of txn_id, after a line
\* with no key gave a record without transaction ID
C29_Witness ==
    /\ ~IsNone(first) /\ ~IsNone(Val(first).result)
    /\ Val(Val(first).result).transaction_id = None
    /\ ~IsNone(last) /\ ~IsNone(Val(last).result)
    /\ LET record == Val(Val(last).result)
       IN  /\ record.original_line = TwoKeys
           /\ record.transaction_id = Some("B2")
           /\ KeyFound(2, TwoKeys).ok /\ KeyFound(3, TwoKeys).ok
           /\ KeyFound(3, TwoKeys).start < KeyFound(2, TwoKeys).start

\* run_analysis holds the report of analyze_error_patterns on a frame with rows
Reported ==
    /\ ~IsNone(app)
    /\ ~IsNone(Val(app).analysis)
    /\ ~IsNone(df)
    /\ Len(Val(df).frame.rows) > 0

\* C30: on the records one parser configuration gave, when there are any, the report
\* of analyze_error_patterns has total_errors_strict <= total_errors <=
\* total_log_entries and total_errors <= total_errors_strict + total_warnings; when
\* warnings are not treated as errors total_errors = total_errors_strict; error_rate
\* is total_errors / total_log_entries, between 0 and 1.
C30_TotalsConsistent ==
    Reported =>
        LET report == Val(Val(app).analysis)
        IN  /\ report.total_log_entries = Len(Val(df).frame.rows)
            /\ report.total_errors_strict <= report.total_errors
            /\ report.total_errors <= report.total_log_entries
            /\ report.total_errors <= report.total_errors_strict + report.total_warnings
            /\ ~Val(app).parser.treat_warnings_as_errors
                  => report.total_errors = report.total_errors_strict
            /\ report.error_rate = [num |-> report.total_errors,
                                    den |-> report.total_log_entries]
            /\ 0 <= report.error_rate.num
            /\ report.error_rate.num <= report.error_rate.den

\* warnings treated as errors: a record that is a warning and no strict error is
\* counted among the errors, and one record is a strict error and a warning at once
C30_Witness ==
    /\ Reported
    /\ Val(app).parser.treat_warnings_as_errors
    /\ LET report == Val(Val(app).analysis)
       IN  /\ report.total_errors_strict > 0
           /\ report.total_errors > report.total_errors_strict
           /\ report.total_errors < report.total_errors_strict + report.total_warnings

====
